---- MODULE Spec2Model ----
(***************************************************************************)
(* DeployPilot user agent: the command processor (poll loop, bounded       *)
(* concurrency, per-command lifecycle ack -> running -> handler -> result) *)
(* together with the control-plane requests it issues.                     *)
(*                                                                         *)
(* Node runs every callback to completion, so each action below is one     *)
(* callback: a timer tick, the continuation after an awaited request, or   *)
(* a lifecycle hook.  Requests in flight are the positions between them.   *)
(***************************************************************************)
EXTENDS Integers, Sequences, FiniteSets, TLC

(***************************************************************************)
(* Bounds of the model.                                                    *)
(***************************************************************************)
\* number of distinct command ids the control plane knows
NumCommands == 3
\* how many ids the control plane may list as pending again after they were
\* admitted once (re-offers after a lost result, stale responses)
MaxReoffers == 1
\* getCommands requests that may be in flight together (the initial poll and
\* interval polls overlap when a request outlasts the poll interval)
MaxPolls == 2
\* configService.get('maxConcurrentCommands', 3): the configured ceiling
maxConcurrentCommands == 2

Ids == 1..NumCommands

(***************************************************************************)
(* Values.                                                                 *)
(***************************************************************************)
\* a field that is absent (JavaScript undefined)
Undefined == "<undefined>"
\* JavaScript null
Null == "<null>"

\* the CommandType union
CommandType ==
    { "DEPLOY", "STOP", "RESTART", "DELETE", "CREATE_NAMESPACE", "UPDATE_ENV",
      "ADD_CUSTOM_DOMAIN", "REMOVE_CUSTOM_DOMAIN", "CREATE_DATABASE",
      "DELETE_DATABASE", "UPDATE_DATABASE_PASSWORD",
      "ENABLE_DATABASE_EXTERNAL_ACCESS", "DISABLE_DATABASE_EXTERNAL_ACCESS",
      "CREATE_BACKUP", "RESTORE_BACKUP" }

\* a kind the control plane may send that is outside the union (the payload
\* is cast at run time, nothing rejects it before dispatch)
ForeignKind == "SCALE"

\* every kind a received command may carry, in a fixed order
AllKinds ==
    << "DEPLOY", "CREATE_BACKUP", ForeignKind, "STOP", "RESTART", "DELETE",
       "CREATE_NAMESPACE", "UPDATE_ENV", "ADD_CUSTOM_DOMAIN",
       "REMOVE_CUSTOM_DOMAIN", "CREATE_DATABASE", "DELETE_DATABASE",
       "UPDATE_DATABASE_PASSWORD", "ENABLE_DATABASE_EXTERNAL_ACCESS",
       "DISABLE_DATABASE_EXTERNAL_ACCESS", "RESTORE_BACKUP" >>

\* the type field of command i: the commands carry the kinds of AllKinds in
\* turn (1 a routed kind, 2 a kind of the union, 3 a kind outside it, ...)
typeOf(i) == AllKinds[((i - 1) % Len(AllKinds)) + 1]

\* the statuses a listed command may carry (CommandStatus); one non-pending
\* status stands for acked | running | completed | failed, which the poll loop
\* treats alike
CommandStatus == { "pending", "completed" }

VARIABLES
    lifecycle,              \* "constructed" | "initialized" | "destroying" | "destroyed"
    pollInterval,           \* the poll timer is set
    isShuttingDown,
    runningCommands,        \* key set of the Map runningCommands (the live-set)
    runningCommandsCount,   \* HeartbeatService.runningCommandsCount
    polls,                  \* pollCommands invocations awaiting getCommands
    exec,                   \* per id: position and history of executeCommand
    admitted,               \* per id: how many times processCommand ran for it
    drain,                  \* ids whose promises onModuleDestroy still awaits
    unhandled,              \* the .catch callback of processCommand has run
    passedOver,             \* never-admitted ids that a tick skipped at the ceiling
    lastTick,               \* the poll response just processed and what the loop did
    awaited,                \* ids whose promises onModuleDestroy passed to Promise.allSettled
    lastError,              \* HeartbeatService.lastError
    heartbeatInterval,      \* the heartbeat timer is set
    registered,             \* ApiClientService.registered
    startup,                \* the registerWithRetry() run of ApiClientService.onModuleInit
    hb,                     \* the sendHeartbeat run in flight, with its registerWithRetry(3)
    lastHeartbeat,          \* the HeartbeatRequest last posted
    lastOp,                 \* the ApiClientService operation this step called
    builds,                 \* per command id: the BuildService.build run of its DEPLOY
    dirs,                   \* per workspace directory: the build whose clone it holds, or 0
    image,                  \* the promise of one BuildService.buildImage call and its process
    shell,                  \* the shell command line a service or handler composed, and how sh reads it
    kube,                   \* one KubernetesService call (or the UPDATE_ENV handler around it) and the cluster's objects
    deploy,                 \* one DeployHandler.handle run: its position, the statuses it issued and the log-relay requests in flight
    clone,                  \* one BuildService.cloneRepository call and the strings build() logs, streams and returns for it
    recipe,                 \* the Dockerfile step of one BuildService.build run
    waiter,                 \* one CreateDatabaseHandler.waitForReady call and the time since it started
    dbcreate,               \* one CreateDatabaseHandler.handle call: the steps it started and the statuses it reported
    dbdelete,               \* one DeleteDatabaseHandler.handle call: the deletes it issued and what came of them
    relay,                  \* the log streaming of one buildImage call: what the two pipes still hold, the line buffer and the lines sent
    ssl,                    \* one AddCustomDomainHandler.handle call and the certificate check it detaches
    backup                  \* one CreateBackupHandler.handle call: the statuses it reported and the unlinks it attempted

\* the state of the other services, which the callbacks of the command
\* processor leave alone
buildVars == << builds, dirs >>

\* the state of the calls studied on their own
toolVars == << image, shell, kube, deploy, clone, recipe, waiter, dbcreate, dbdelete, relay, ssl, backup >>

restVars == << lastError, heartbeatInterval, registered, startup, hb,
              lastHeartbeat, lastOp, buildVars, toolVars >>

vars == << lifecycle, pollInterval, isShuttingDown, runningCommands,
           runningCommandsCount, polls, exec, admitted, drain, unhandled,
           passedOver, lastTick, awaited, restVars >>

(***************************************************************************)
(* Requests to the control plane and their failures.                       *)
(***************************************************************************)
\* the AxiosError a rejected request throws (the interceptor rethrows it)
AxiosError == [isError |-> TRUE, message |-> "Request failed with status code 500"]

(***************************************************************************)
(* KubernetesService.executeCommand and BaseHandler.formatResult           *)
(***************************************************************************)
\* the CommandResult of a shell command: success, or failure with the exec
\* error's message
CommandResults ==
    { [success |-> TRUE,  stdout |-> "out", stderr |-> "",    error |-> Undefined],
      [success |-> FALSE, stdout |-> "out", stderr |-> "err", error |-> "Command failed: kubectl"] }

\* [stdout, stderr].filter(Boolean).join('\n') || undefined
JoinLogs(stdout, stderr) ==
    IF stdout # "" /\ stderr # "" THEN stdout \o "\n" \o stderr
    ELSE IF stdout # "" THEN stdout
    ELSE IF stderr # "" THEN stderr
    ELSE Undefined

\* formatResult with the error field left out
formatResultNoError(result) ==
    [success |-> result.success,
     error   |-> Undefined,
     logs    |-> JoinLogs(result.stdout, result.stderr)]

formatResult(result) ==
    [success |-> result.success,
     error   |-> result.error,
     logs    |-> JoinLogs(result.stdout, result.stderr)]

\* what a handler may throw: an Error with a message, or a value that is no
\* Error
Thrown ==
    { [isError |-> TRUE,  message |-> "Database db did not become ready within 120s"],
      [isError |-> FALSE, message |-> Undefined] }

\* the ways handle(command) ends: it returns a HandlerResult or throws
HandlerOutcomes ==
    { [returns |-> TRUE, result |-> formatResult(r), thrown |-> AxiosError] : r \in CommandResults }
    \cup
    { [returns |-> FALSE, result |-> formatResult(CHOOSE r \in CommandResults : ~r.success),
       thrown |-> t] : t \in Thrown }

(***************************************************************************)
(* CommandProcessorService.getHandler                                      *)
(***************************************************************************)
NoHandler == "throw"

getHandler(type) ==
    CASE type = "DEPLOY" -> "deployHandler"
      [] type = "STOP" -> "stopHandler"
      [] type = "RESTART" -> "restartHandler"
      [] type = "DELETE" -> "deleteHandler"
      [] type = "CREATE_NAMESPACE" -> "createNamespaceHandler"
      [] type = "UPDATE_ENV" -> "updateEnvHandler"
      [] type = "ADD_CUSTOM_DOMAIN" -> "addCustomDomainHandler"
      [] type = "REMOVE_CUSTOM_DOMAIN" -> "removeCustomDomainHandler"
      [] type = "CREATE_DATABASE" -> "createDatabaseHandler"
      [] type = "DELETE_DATABASE" -> "deleteDatabaseHandler"
      [] type = "UPDATE_DATABASE_PASSWORD" -> "updateDatabasePasswordHandler"
      [] type = "ENABLE_DATABASE_EXTERNAL_ACCESS" -> "enableDatabaseExternalAccessHandler"
      [] type = "DISABLE_DATABASE_EXTERNAL_ACCESS" -> "disableDatabaseExternalAccessHandler"
      [] OTHER -> NoHandler

\* the default branch throwing an Error that does not name the type
UnknownTypeErrorUnnamed(type) ==
    [isError |-> TRUE, message |-> "Unknown command type"]

\* the Error the default branch throws
UnknownTypeError(type) ==
    [isError |-> TRUE, message |-> "Unknown command type: " \o type]

(***************************************************************************)
(* CommandProcessorService.executeCommand, one operator per continuation.  *)
(*   pc        the request or call the run is waiting for                  *)
(*   sent      the requests issued so far, in order                        *)
(*   results   the bodies of the result requests issued so far             *)
(*   handler   the handler whose handle() was called, if any               *)
(*   returned  what handle() returned, if it returned                      *)
(*   caught    what the catch block caught, if it ran                      *)
(*   rejected  the requests that were rejected                             *)
(***************************************************************************)
Idle ==
    [pc |-> "idle", sent |-> <<>>, results |-> <<>>, handler |-> NoHandler,
     returned |-> <<>>, caught |-> <<>>, rejected |-> <<>>]

\* up to the first await: the ack request is issued
executeCommand ==
    [Idle EXCEPT !.pc = "ack", !.sent = <<"ack">>]

\* the catch block reporting a fixed text instead of the caught message
errorMessageFixed(error) == "Unknown error"

\* error instanceof Error ? error.message : 'Unknown error'
errorMessage(error) ==
    IF error.isError THEN error.message ELSE "Unknown error"

\* the catch block up to its await: a failure result is issued
catch(e, error) ==
    [e EXCEPT !.pc = "failresult",
              !.caught = Append(@, error),
              !.sent = Append(@, "result"),
              !.results = Append(@, [success |-> FALSE,
                                     error   |-> errorMessage(error),
                                     logs    |-> Undefined])]

\* the promise of the run never settles
settleNever(e, how) == [e EXCEPT !.pc = "pending"]

\* the run is over: its promise settles
settle(e, how) == [e EXCEPT !.pc = how]

\* the ack request not awaited inside the try block: its rejection is lost
\* and the running request goes out regardless
afterAckUnchecked(e, ok) ==
    [e EXCEPT !.pc = "running",
              !.sent = Append(@, "running"),
              !.rejected = IF ok THEN @ ELSE Append(@, "ack")]

\* after await ackCommand
afterAck(e, ok) ==
    IF ok THEN [e EXCEPT !.pc = "running", !.sent = Append(@, "running")]
    ELSE catch([e EXCEPT !.rejected = Append(@, "ack")], AxiosError)

\* the mark-running request not awaited inside the try block: the handler is
\* invoked whatever the request returned
afterRunningUnchecked(e, type, ok) ==
    LET r == [e EXCEPT !.rejected = IF ok THEN @ ELSE Append(@, "running")]
    IN  IF getHandler(type) = NoHandler
        THEN catch(r, UnknownTypeError(type))
        ELSE [r EXCEPT !.pc = "handler", !.handler = getHandler(type)]

\* after await markCommandRunning: getHandler(command.type).handle(command)
afterRunning(e, type, ok) ==
    IF ok
    THEN IF getHandler(type) = NoHandler
         THEN catch(e, UnknownTypeError(type))
         ELSE [e EXCEPT !.pc = "handler", !.handler = getHandler(type)]
    ELSE catch([e EXCEPT !.rejected = Append(@, "running")], AxiosError)

\* after await handle(command): the handler's result is sent
afterHandler(e, outcome) ==
    IF outcome.returns
    THEN [e EXCEPT !.pc = "result",
                   !.returned = Append(@, outcome.result),
                   !.sent = Append(@, "result"),
                   !.results = Append(@, [success |-> outcome.result.success,
                                          error   |-> outcome.result.error,
                                          logs    |-> outcome.result.logs])]
    ELSE catch(e, outcome.thrown)

\* after await sendCommandResult inside the try block
afterResult(e, ok) ==
    IF ok THEN settle(e, "fulfilled")
    ELSE catch([e EXCEPT !.rejected = Append(@, "result")], AxiosError)

\* the catch block without its inner try: a rejected failure result rejects
\* the promise of executeCommand
afterFailResultRethrows(e, ok) ==
    IF ok THEN settle(e, "fulfilled")
    ELSE settle([e EXCEPT !.rejected = Append(@, "result")], "rejected")

\* after await sendCommandResult inside the catch block: a rejection is
\* caught and logged
afterFailResult(e, ok) ==
    IF ok THEN settle(e, "fulfilled")
    ELSE settle([e EXCEPT !.rejected = Append(@, "result")], "fulfilled")

(***************************************************************************)
(* CommandProcessorService.pollCommands / processCommand                   *)
(***************************************************************************)
\* the loop's view of the service while it runs
LoopState ==
    [runningCommands |-> runningCommands,
     runningCommandsCount |-> runningCommandsCount,
     started |-> <<>>,
     skipped |-> <<>>]

\* processCommand without the call of setRunningCommandsCount
processCommandStaleCount(st, command) ==
    [runningCommands |-> st.runningCommands \cup {command.id},
     runningCommandsCount |-> st.runningCommandsCount,
     started |-> Append(st.started, command.id),
     skipped |-> st.skipped]

\* runningCommands.set(id, promise); setRunningCommandsCount(size)
processCommand(st, command) ==
    LET live == st.runningCommands \cup {command.id}
    IN  [runningCommands |-> live,
         runningCommandsCount |-> Cardinality(live),
         started |-> Append(st.started, command.id),
         skipped |-> st.skipped]

\* the ceiling test off by one: size > maxConcurrent
ceilingReachedOffByOne(size) == size > maxConcurrentCommands

\* this.runningCommands.size >= maxConcurrent
ceilingReached(size) == size >= maxConcurrentCommands

\* the status test left out: !this.runningCommands.has(command.id)
eligibleAnyStatus(st, command) == command.id \notin st.runningCommands

\* command.status === 'pending' && !this.runningCommands.has(command.id)
eligible(st, command) ==
    command.status = "pending" /\ command.id \notin st.runningCommands

\* for (const command of commands) { ... break ... processCommand(command) }
RECURSIVE pollLoop(_, _)
pollLoop(commands, st) ==
    IF commands = <<>> THEN st
    ELSE LET command == Head(commands)
         IN  IF eligible(st, command)
             THEN IF ceilingReached(Cardinality(st.runningCommands))
                  THEN [st EXCEPT !.skipped = <<command.id>>]
                  ELSE pollLoop(Tail(commands), processCommand(st, command))
             ELSE pollLoop(Tail(commands), st)

\* the finally callback without the delete: the entry stays in the Map
finallyCallbackKeepsEntry(id) ==
    /\ runningCommands' = runningCommands
    /\ runningCommandsCount' = Cardinality(runningCommands)

\* the finally callback of processCommand
finallyCallback(id) ==
    /\ runningCommands' = runningCommands \ {id}
    /\ runningCommandsCount' = Cardinality(runningCommands \ {id})

(***************************************************************************)
(* The control plane's answer to GET /commands.                            *)
(***************************************************************************)
\* the ids that were admitted more than once
Reoffered == { i \in Ids : admitted[i] > 1 }

\* the Command objects the control plane can list now: an id that was
\* admitted is listed as pending once more while the re-offers last
Commands ==
    { c \in { [id |-> i, type |-> typeOf(i), status |-> s] : i \in Ids, s \in CommandStatus } :
        c.status = "pending" =>
            \/ admitted[c.id] = 0
            \/ admitted[c.id] = 1 /\ Cardinality(Reoffered) < MaxReoffers }

\* lists of commands with distinct ids
RECURSIVE CommandLists(_)
CommandLists(S) ==
    {<<>>} \cup
    UNION { { <<c>> \o rest : rest \in CommandLists({ d \in S : d.id # c.id }) } : c \in S }

\* the responses: pending commands in any order, after at most one command
\* in another status, re-offering no more ids than the re-offers allow
Responses ==
    LET pending == { c \in Commands : c.status = "pending" }
        other == { c \in Commands : c.status # "pending" }
        lists == CommandLists(pending) \cup
                 UNION { { <<c>> \o rest : rest \in CommandLists({ d \in pending : d.id # c.id }) } : c \in other }
    IN { l \in lists :
           Cardinality({ k \in DOMAIN l : l[k].status = "pending" /\ admitted[l[k].id] > 0 })
               <= MaxReoffers - Cardinality(Reoffered) }

Range(s) == { s[i] : i \in DOMAIN s }

\* the ids a list carries with status pending, in list order
RECURSIVE PendingIds(_)
PendingIds(commands) ==
    IF commands = <<>> THEN <<>>
    ELSE IF Head(commands).status = "pending"
         THEN <<Head(commands).id>> \o PendingIds(Tail(commands))
         ELSE PendingIds(Tail(commands))

(***************************************************************************)
(* Initial state: the service as constructed.                              *)
(***************************************************************************)
InitService ==
    /\ lifecycle = "constructed"
    /\ pollInterval = FALSE
    /\ isShuttingDown = FALSE
    /\ runningCommands = {}
    /\ runningCommandsCount = 0
    /\ polls = 0
    /\ exec = [i \in Ids |-> Idle]
    /\ admitted = [i \in Ids |-> 0]
    /\ drain = {}
    /\ unhandled = FALSE
    /\ passedOver = {}
    /\ lastTick = <<>>
    /\ awaited = {}

\* a registerWithRetry run that has not been called
NotCalled ==
    [pc |-> "idle", maxRetries |-> 0, attempt |-> 0, delay |-> 0, waits |-> <<>>,
     requests |-> 0, ok |-> FALSE]

\* no sendHeartbeat in flight
NoHeartbeat == [pc |-> "idle", request |-> <<>>, retry |-> NotCalled]

\* HeartbeatService as constructed
InitHeartbeat ==
    /\ lastError = Null
    /\ heartbeatInterval = FALSE
    /\ hb = NoHeartbeat
    /\ lastHeartbeat = <<>>

\* ApiClientService as constructed
InitApiClient ==
    /\ registered = FALSE
    /\ startup = NotCalled
    /\ lastOp = "none"

\* const BUILD_DIR = '/tmp/deploypilot-builds'
BUILD_DIR == "/tmp/deploypilot-builds"

\* the appName values of the DEPLOY payloads
AppNames == { "shop", "blog" }

\* path.join(BUILD_DIR, config.appName)
buildDirOf(appName) == BUILD_DIR \o "/" \o appName

\* no build() run for a command
NoBuild == [pc |-> "idle", config |-> <<>>, ran |-> <<>>, result |-> <<>>, cleanup |-> "none"]

\* no build has run and no workspace directory exists
InitBuild ==
    /\ builds = [i \in Ids |-> NoBuild]
    /\ dirs = [d \in { buildDirOf(a) : a \in AppNames } |-> 0]

\* no buildImage call has been made
NoImage ==
    [pc |-> "idle", tag |-> "", timeout |-> "none", proc |-> "none", signal |-> Null,
     code |-> <<>>, output |-> <<>>, elapsed |-> 0, settled |-> <<>>]

\* no command line has been composed
NoShell == [pc |-> "idle", by |-> "", values |-> <<>>, cmd |-> <<>>, parsed |-> <<>>]

\* no KubernetesService call has been made; the cluster holds no object of
\* the application
NoKube ==
    [pc |-> "idle", call |-> "", envVars |-> <<>>, queue |-> <<>>, executed |-> <<>>,
     results |-> <<>>, returned |-> <<>>, objects |-> {}, before |-> {},
     previous |-> <<>>]

\* DeployHandler.handle has not been called
NoDeploy ==
    [pc |-> "idle", logs |-> <<>>, issued |-> <<>>, trace |-> <<>>, result |-> <<>>,
     sent |-> 0, requests |-> {}, errorLogged |-> FALSE]

\* cloneRepository has not been called
NoClone ==
    [pc |-> "idle", gitUrl |-> <<>>, token |-> <<>>, authUrl |-> <<>>, cmd |-> <<>>,
     result |-> <<>>, emitted |-> {}]

\* build() has not reached its Dockerfile step
NoRecipe ==
    [pc |-> "idle", config |-> <<>>, exists |-> FALSE, pm |-> "", file |-> <<>>,
     writes |-> 0, used |-> <<>>]

\* waitForReady has not been called
NoWaiter ==
    [pc |-> "idle", elapsed |-> 0, probes |-> 0, start |-> 0, lastEnd |-> 0,
     observed |-> FALSE, error |-> Undefined]

\* CreateDatabaseHandler.handle has not been called
NoDbCreate ==
    [pc |-> "idle", payload |-> Undefined, ran |-> <<>>, failed |-> {},
     statuses |-> <<>>, message |-> Undefined, result |-> Undefined]

\* DeleteDatabaseHandler.handle has not been called
NoDbDelete ==
    [pc |-> "idle", queue |-> <<>>, issued |-> <<>>, outcomes |-> <<>>,
     confirmed |-> FALSE, result |-> Undefined]

\* docker has not been spawned
NoRelay ==
    [pc |-> "idle", stdoutText |-> <<>>, stderrText |-> <<>>, stdout |-> <<>>,
     stderr |-> <<>>, output |-> <<>>, lineBuffer |-> <<>>, sent |-> <<>>, flushes |-> 0]

\* AddCustomDomainHandler.handle has not been called
NoSsl ==
    [pc |-> "idle", result |-> Undefined, check |-> "none", attempt |-> 0, probes |-> 0,
     found |-> FALSE, statuses |-> <<>>, atReturn |-> Undefined]

\* CreateBackupHandler.handle has not been called
NoBackup ==
    [pc |-> "idle", databaseType |-> Undefined, statuses |-> <<>>, message |-> Undefined,
     returning |-> Undefined, unlinked |-> <<>>, result |-> Undefined]

\* the calls studied on their own have not been made
InitTools == image = NoImage /\ shell = NoShell /\ kube = NoKube /\ deploy = NoDeploy /\ clone = NoClone /\ recipe = NoRecipe /\ waiter = NoWaiter /\ dbcreate = NoDbCreate /\ dbdelete = NoDbDelete /\ relay = NoRelay /\ ssl = NoSsl /\ backup = NoBackup

\* the command processor is studied with the agent registered, which is when
\* getCommands sends requests at all
Init ==
    /\ InitService /\ InitHeartbeat /\ InitBuild /\ InitTools
    /\ registered = TRUE /\ startup = NotCalled /\ lastOp = "none"

(***************************************************************************)
(* Actions.                                                                *)
(***************************************************************************)
\* pollCommands up to its await: returns at once when shutting down
pollCommands ==
    IF isShuttingDown THEN polls' = polls ELSE polls' = polls + 1

\* onModuleInit: set the interval, run the initial poll
onModuleInit ==
    /\ lifecycle = "constructed"
    /\ lifecycle' = "initialized"
    /\ pollInterval' = TRUE
    /\ pollCommands
    /\ lastTick' = <<>>
    /\ UNCHANGED << isShuttingDown, runningCommands, runningCommandsCount,
                    exec, admitted, drain, unhandled, passedOver >>
    /\ UNCHANGED << awaited, restVars >>

\* the interval timer fires
Tick ==
    /\ pollInterval
    /\ polls < MaxPolls
    /\ pollCommands
    /\ lastTick' = <<>>
    /\ UNCHANGED << lifecycle, pollInterval, isShuttingDown, runningCommands,
                    runningCommandsCount, exec, admitted, drain, unhandled, passedOver >>
    /\ UNCHANGED << awaited, restVars >>

\* getCommands resolves with commands: the rest of pollCommands
PollResponse(commands) ==
    /\ polls > 0
    /\ polls' = polls - 1
    /\ LET st == pollLoop(commands, LoopState)
           new == Range(st.started)
       IN  /\ runningCommands' = st.runningCommands
           /\ runningCommandsCount' = st.runningCommandsCount
           /\ exec' = [i \in Ids |-> IF i \in new THEN executeCommand ELSE exec[i]]
           /\ admitted' = [i \in Ids |-> IF i \in new THEN admitted[i] + 1 ELSE admitted[i]]
           /\ passedOver' = (passedOver \cup { i \in Range(st.skipped) : admitted[i] = 0 }) \ new
           /\ lastTick' = << [pending |-> PendingIds(commands),
                              started |-> st.started,
                              skipped |-> st.skipped,
                              waited  |-> new \cap passedOver] >>
    /\ UNCHANGED << lifecycle, pollInterval, isShuttingDown, drain, unhandled >>
    /\ UNCHANGED << awaited, restVars >>

\* a poll failure that also clears the poll timer
PollFailureStopsTimer ==
    /\ polls > 0
    /\ polls' = polls - 1
    /\ pollInterval' = FALSE
    /\ lastTick' = <<>>
    /\ UNCHANGED << lifecycle, isShuttingDown, runningCommands,
                    runningCommandsCount, exec, admitted, drain, unhandled, passedOver >>
    /\ UNCHANGED << awaited, restVars >>

\* getCommands rejects: caught and logged inside pollCommands
PollFailure ==
    /\ polls > 0
    /\ polls' = polls - 1
    /\ lastTick' = <<>>
    /\ UNCHANGED << lifecycle, pollInterval, isShuttingDown, runningCommands,
                    runningCommandsCount, exec, admitted, drain, unhandled, passedOver >>
    /\ UNCHANGED << awaited, restVars >>

\* a continuation of executeCommand for id leaves it at e
Continue(id, e) ==
    IF e.pc \in {"fulfilled", "rejected"}
    THEN /\ finallyCallback(id)
         /\ exec' = [exec EXCEPT ![id] = Idle]
         /\ drain' = drain \ {id}
         /\ lifecycle' = IF lifecycle = "destroying" /\ drain \ {id} = {}
                         THEN "destroyed" ELSE lifecycle
         /\ unhandled' = (unhandled \/ e.pc = "rejected")
    ELSE /\ exec' = [exec EXCEPT ![id] = e]
         /\ UNCHANGED << runningCommands, runningCommandsCount, drain, lifecycle,
                         unhandled >>

AckDone(id, ok) ==
    /\ exec[id].pc = "ack"
    /\ Continue(id, afterAck(exec[id], ok))
    /\ lastTick' = <<>>
    /\ UNCHANGED << pollInterval, isShuttingDown, polls, admitted, passedOver >>
    /\ UNCHANGED << awaited, restVars >>

RunningDone(id, ok) ==
    /\ exec[id].pc = "running"
    /\ Continue(id, afterRunning(exec[id], typeOf(id), ok))
    /\ lastTick' = <<>>
    /\ UNCHANGED << pollInterval, isShuttingDown, polls, admitted, passedOver >>
    /\ UNCHANGED << awaited, restVars >>

HandlerDone(id, outcome) ==
    /\ exec[id].pc = "handler"
    /\ Continue(id, afterHandler(exec[id], outcome))
    /\ lastTick' = <<>>
    /\ UNCHANGED << pollInterval, isShuttingDown, polls, admitted, passedOver >>
    /\ UNCHANGED << awaited, restVars >>

ResultDone(id, ok) ==
    /\ exec[id].pc = "result"
    /\ Continue(id, afterResult(exec[id], ok))
    /\ lastTick' = <<>>
    /\ UNCHANGED << pollInterval, isShuttingDown, polls, admitted, passedOver >>
    /\ UNCHANGED << awaited, restVars >>

FailResultDone(id, ok) ==
    /\ exec[id].pc = "failresult"
    /\ Continue(id, afterFailResult(exec[id], ok))
    /\ lastTick' = <<>>
    /\ UNCHANGED << pollInterval, isShuttingDown, polls, admitted, passedOver >>
    /\ UNCHANGED << awaited, restVars >>

\* onModuleDestroy returning without awaiting the running commands
onModuleDestroyNoWait ==
    /\ lifecycle = "initialized"
    /\ isShuttingDown' = TRUE
    /\ pollInterval' = FALSE
    /\ drain' = runningCommands
    /\ awaited' = runningCommands
    /\ lifecycle' = "destroyed"
    /\ lastTick' = <<>>
    /\ UNCHANGED << runningCommands, runningCommandsCount, polls, exec,
                    admitted, unhandled, passedOver >>
    /\ UNCHANGED restVars

\* onModuleDestroy up to its await (or to its end when nothing is running)
onModuleDestroy ==
    /\ lifecycle = "initialized"
    /\ isShuttingDown' = TRUE
    /\ pollInterval' = FALSE
    /\ drain' = runningCommands
    /\ awaited' = runningCommands
    /\ lifecycle' = IF Cardinality(runningCommands) > 0 THEN "destroying" ELSE "destroyed"
    /\ lastTick' = <<>>
    /\ UNCHANGED << runningCommands, runningCommandsCount, polls, exec,
                    admitted, unhandled, passedOver >>
    /\ UNCHANGED restVars

Next ==
    \/ onModuleInit
    \/ Tick
    \/ \E commands \in Responses : PollResponse(commands)
    \/ PollFailure
    \/ \E id \in Ids, ok \in BOOLEAN : AckDone(id, ok)
    \/ \E id \in Ids, ok \in BOOLEAN : RunningDone(id, ok)
    \/ \E id \in Ids, outcome \in HandlerOutcomes : HandlerDone(id, outcome)
    \/ \E id \in Ids, ok \in BOOLEAN : ResultDone(id, ok)
    \/ \E id \in Ids, ok \in BOOLEAN : FailResultDone(id, ok)
    \/ onModuleDestroy

Spec == Init /\ [][Next]_vars

(***************************************************************************)
(* The premise of the liveness claim as a second specification: polls keep *)
(* firing and succeed, the agent is not shut down, requests in flight are  *)
(* answered and handlers terminate.  The control plane answers every poll  *)
(* with the commands that were never admitted, all pending (a command that *)
(* was never acked is still pending there), oldest or newest first.        *)
(***************************************************************************)
ExecStep(id) ==
    \/ \E ok \in BOOLEAN : AckDone(id, ok)
    \/ \E ok \in BOOLEAN : RunningDone(id, ok)
    \/ \E outcome \in HandlerOutcomes : HandlerDone(id, outcome)
    \/ \E ok \in BOOLEAN : ResultDone(id, ok)
    \/ \E ok \in BOOLEAN : FailResultDone(id, ok)

\* the never-admitted commands from id lo upwards, in ascending order
RECURSIVE WaitingFrom(_)
WaitingFrom(lo) ==
    IF lo > NumCommands THEN <<>>
    ELSE IF admitted[lo] = 0
         THEN << [id |-> lo, type |-> typeOf(lo), status |-> "pending"] >> \o WaitingFrom(lo + 1)
         ELSE WaitingFrom(lo + 1)

Reverse(s) == [i \in 1..Len(s) |-> s[Len(s) + 1 - i]]

OfferedLists == { WaitingFrom(1), Reverse(WaitingFrom(1)) }

PollResponseOffering ==
    \E commands \in OfferedLists : PollResponse(commands)

FairNext ==
    \/ onModuleInit
    \/ Tick
    \/ PollResponseOffering
    \/ \E id \in Ids : ExecStep(id)

FairSpec ==
    /\ Init
    /\ [][FairNext]_vars
    /\ WF_vars(onModuleInit)
    /\ WF_vars(Tick)
    /\ WF_vars(PollResponseOffering)
    /\ \A id \in Ids : WF_vars(ExecStep(id))

(***************************************************************************)
(* ApiClientService registration and HeartbeatService.                     *)
(***************************************************************************)
\* registerWithRetry(maxRetries = 10)
DefaultMaxRetries == 10
\* sendHeartbeat: registerWithRetry(3)
HeartbeatMaxRetries == 3
\* let delay = 1000
InitialDelayMs == 1000
\* Math.min(delay * 2, 60000)
MaxDelayMs == 60000

Min(a, b) == IF a < b THEN a ELSE b

\* the values of lastError the status is derived from
LastErrors == { Null, "", "Command processor crashed" }

\* registerWithRetry up to its first await: attempt = 0, delay = 1000, and
\* the first register() when the loop condition holds
registerWithRetry(maxRetries) ==
    [pc |-> IF 0 < maxRetries THEN "register" ELSE "returned",
     maxRetries |-> maxRetries, attempt |-> 0, delay |-> InitialDelayMs,
     waits |-> <<>>, requests |-> IF 0 < maxRetries THEN 1 ELSE 0, ok |-> FALSE]

\* the delay update without the cap
nextDelayUncapped(delay) == delay * 2

\* delay = Math.min(delay * 2, 60000)
nextDelay(delay) == Min(delay * 2, MaxDelayMs)

\* await register() settles: return on success; on failure attempt++ and
\* sleep(delay)
afterRegister(r, success) ==
    IF success
    THEN [r EXCEPT !.pc = "returned", !.ok = TRUE]
    ELSE [r EXCEPT !.pc = "sleep", !.attempt = r.attempt + 1,
                   !.waits = Append(r.waits, r.delay)]

\* await sleep(delay) is over: update the delay, test the loop condition
afterSleep(r) ==
    IF r.attempt < r.maxRetries
    THEN [r EXCEPT !.pc = "register", !.delay = nextDelay(r.delay),
                   !.requests = r.requests + 1]
    ELSE [r EXCEPT !.pc = "returned", !.delay = nextDelay(r.delay)]

\* determineStatus with the busy test off by one
determineStatusOffByOne(error, count) ==
    IF error \notin {Null, ""} THEN "error"
    ELSE IF count > maxConcurrentCommands THEN "busy"
    ELSE "online"

\* HeartbeatService.determineStatus
determineStatus(error, count) ==
    IF error \notin {Null, ""} THEN "error"
    ELSE IF count >= maxConcurrentCommands THEN "busy"
    ELSE "online"

\* the HeartbeatRequest built by HeartbeatService.sendHeartbeat
HeartbeatRequest ==
    [status |-> determineStatus(lastError, runningCommandsCount),
     errorMessage |-> IF lastError = Null THEN Undefined ELSE lastError]

\* the command processor's variables that the agent's other services leave
\* alone
processorVars ==
    << lifecycle, pollInterval, isShuttingDown, polls, exec, admitted, drain,
       unhandled, passedOver, lastTick, awaited >>

\* the variables of the services: everything but the calls studied on their own
serviceVars ==
    << processorVars, runningCommands, runningCommandsCount, lastError,
       heartbeatInterval, registered, startup, hb, lastHeartbeat, lastOp, buildVars >>

\* the values of lastError the status derivation is checked for; the rest as
\* constructed
InitAgent ==
    /\ InitService
    /\ lastError \in LastErrors
    /\ heartbeatInterval = FALSE
    /\ hb = NoHeartbeat
    /\ lastHeartbeat = <<>>
    /\ InitApiClient
    /\ InitBuild
    /\ InitTools

\* ApiClientService.onModuleInit: await registerWithRetry()
ApiOnModuleInit ==
    /\ startup.pc = "idle"
    /\ startup' = registerWithRetry(DefaultMaxRetries)
    /\ lastOp' = "register"
    /\ UNCHANGED << processorVars, runningCommands, runningCommandsCount, lastError,
                    heartbeatInterval, registered, hb, lastHeartbeat >>
    /\ UNCHANGED << buildVars, toolVars >>

\* the register request of the startup run settles
StartupRegisterDone(success) ==
    /\ startup.pc = "register"
    /\ startup' = afterRegister(startup, success)
    /\ registered' = (registered \/ success)
    /\ lastOp' = "none"
    /\ UNCHANGED << processorVars, runningCommands, runningCommandsCount, lastError,
                    heartbeatInterval, hb, lastHeartbeat >>
    /\ UNCHANGED << buildVars, toolVars >>

\* the sleep of the startup run is over
StartupSleepDone ==
    /\ startup.pc = "sleep"
    /\ startup' = afterSleep(startup)
    /\ lastOp' = IF afterSleep(startup).pc = "register" THEN "register" ELSE "none"
    /\ UNCHANGED << processorVars, runningCommands, runningCommandsCount, lastError,
                    heartbeatInterval, registered, hb, lastHeartbeat >>
    /\ UNCHANGED << buildVars, toolVars >>

\* ApiClientService.sendHeartbeat once registration is settled or skipped:
\* post the request
postHeartbeat(request) ==
    /\ hb' = [pc |-> "post", request |-> << request >>, retry |-> hb.retry]
    /\ lastHeartbeat' = << request >>

\* HeartbeatService.sendHeartbeat up to its first await: the request is built
\* first, then ApiClientService.sendHeartbeat registers when not registered
sendHeartbeat ==
    IF registered
    THEN postHeartbeat(HeartbeatRequest)
    ELSE /\ hb' = [pc |-> "registering", request |-> << HeartbeatRequest >>,
                   retry |-> registerWithRetry(HeartbeatMaxRetries)]
         /\ lastHeartbeat' = lastHeartbeat

\* HeartbeatService.onModuleInit: set the interval, send the initial heartbeat
HeartbeatOnModuleInit ==
    /\ ~heartbeatInterval /\ hb.pc = "idle" /\ lastHeartbeat = <<>>
    /\ heartbeatInterval' = TRUE
    /\ sendHeartbeat
    /\ lastOp' = "sendHeartbeat"
    /\ UNCHANGED << processorVars, runningCommands, runningCommandsCount, lastError,
                    registered, startup >>
    /\ UNCHANGED << buildVars, toolVars >>

\* the heartbeat timer fires (one sendHeartbeat in flight at a time)
HeartbeatTick ==
    /\ heartbeatInterval /\ hb.pc = "idle"
    /\ sendHeartbeat
    /\ lastOp' = "sendHeartbeat"
    /\ UNCHANGED << processorVars, runningCommands, runningCommandsCount, lastError,
                    heartbeatInterval, registered, startup >>
    /\ UNCHANGED << buildVars, toolVars >>

\* registerWithRetry(3) of a heartbeat has returned: the request is posted
\* whether or not the agent is registered now
heartbeatRegistered(r) ==
    IF r.pc = "returned"
    THEN /\ hb' = [pc |-> "post", request |-> hb.request, retry |-> r]
         /\ lastHeartbeat' = hb.request
    ELSE /\ hb' = [hb EXCEPT !.retry = r]
         /\ lastHeartbeat' = lastHeartbeat

\* the register request of a heartbeat's registration settles
HeartbeatRegisterDone(success) ==
    /\ hb.pc = "registering" /\ hb.retry.pc = "register"
    /\ heartbeatRegistered(afterRegister(hb.retry, success))
    /\ registered' = (registered \/ success)
    /\ lastOp' = "none"
    /\ UNCHANGED << processorVars, runningCommands, runningCommandsCount, lastError,
                    heartbeatInterval, startup >>
    /\ UNCHANGED << buildVars, toolVars >>

\* the sleep of a heartbeat's registration is over
HeartbeatSleepDone ==
    /\ hb.pc = "registering" /\ hb.retry.pc = "sleep"
    /\ heartbeatRegistered(afterSleep(hb.retry))
    /\ lastOp' = IF afterSleep(hb.retry).pc = "register" THEN "register" ELSE "none"
    /\ UNCHANGED << processorVars, runningCommands, runningCommandsCount, lastError,
                    heartbeatInterval, registered, startup >>
    /\ UNCHANGED << buildVars, toolVars >>

\* the heartbeat request settles; a failure is caught and logged
HeartbeatPostDone ==
    /\ hb.pc = "post"
    /\ hb' = NoHeartbeat
    /\ lastOp' = "none"
    /\ UNCHANGED << processorVars, runningCommands, runningCommandsCount, lastError,
                    heartbeatInterval, registered, startup, lastHeartbeat >>
    /\ UNCHANGED << buildVars, toolVars >>

\* the answers getCommands can give to one poll: [] without a request when
\* not registered, else a list of at most one command
getCommands ==
    IF ~registered THEN { <<>> }
    ELSE { <<>> } \cup { << c >> : c \in Commands }

\* a poll of the command processor, seen from the other services: getCommands
\* and the admission loop
AgentPoll(commands) ==
    /\ LET st == pollLoop(commands, LoopState)
       IN  /\ runningCommands' = st.runningCommands
           /\ runningCommandsCount' = st.runningCommandsCount
    /\ lastOp' = "getCommands"
    /\ UNCHANGED << processorVars, lastError, heartbeatInterval, registered,
                    startup, hb, lastHeartbeat >>
    /\ UNCHANGED << buildVars, toolVars >>

\* a running command settles: the finally callback of processCommand
AgentCommandDone(id) ==
    /\ id \in runningCommands
    /\ finallyCallback(id)
    /\ lastOp' = "none"
    /\ UNCHANGED << processorVars, lastError, heartbeatInterval, registered,
                    startup, hb, lastHeartbeat >>
    /\ UNCHANGED << buildVars, toolVars >>

AgentNext ==
    \/ ApiOnModuleInit
    \/ \E success \in BOOLEAN : StartupRegisterDone(success)
    \/ StartupSleepDone
    \/ HeartbeatOnModuleInit
    \/ HeartbeatTick
    \/ \E success \in BOOLEAN : HeartbeatRegisterDone(success)
    \/ HeartbeatSleepDone
    \/ HeartbeatPostDone
    \/ \E commands \in getCommands : AgentPoll(commands)
    \/ \E id \in Ids : AgentCommandDone(id)

AgentSpec == InitAgent /\ [][AgentNext]_vars

(***************************************************************************)
(* BuildService.build, called by DeployHandler.handle for the DEPLOY        *)
(* commands in the live-set.                                               *)
(***************************************************************************)
\* build() runs that may be started in all
MaxBuilds == 2

\* payload.deploymentId of the DEPLOY command with this id
deploymentIdOf(i) == "dep" \o ToString(i)

\* the pending DEPLOY commands the control plane can list: one per id that
\* was not admitted yet, for any application
DeployCommands ==
    { [id |-> i, type |-> "DEPLOY", status |-> "pending",
       payload |-> [appName |-> a, deploymentId |-> deploymentIdOf(i)]] :
          i \in { j \in Ids : builds[j].pc = "idle" }, a \in AppNames }

\* `${config.appName}:${config.deploymentId}`
imageTag(config) == config.appName \o ":" \o config.deploymentId

\* the image name without the registry prefix
imageNameUnqualified(config) == imageTag(config)

\* `docker.io/library/${imageTag}`
imageName(config) == "docker.io/library/" \o imageTag(config)

\* build() up to await prepareBuildDir(buildDir)
build(config) ==
    [pc |-> "prepare", config |-> << config >>, ran |-> <<>>, result |-> <<>>,
     cleanup |-> "none"]

\* step was awaited
ranStep(b, step) == [b EXCEPT !.ran = Append(b.ran, step)]

\* the catch block returning without the finally block
failNoCleanup(b, message) ==
    [b EXCEPT !.pc = "done",
              !.result = << [success |-> FALSE, imageName |-> "", error |-> message] >>]

\* the catch block: return { success: false, imageName: '', error }, then
\* the finally block
fail(b, message) ==
    [b EXCEPT !.pc = "cleanup",
              !.result = << [success |-> FALSE, imageName |-> "", error |-> message] >>]

\* await prepareBuildDir settles; fs.mkdir may throw, the rm error is ignored
afterPrepare(b, ok) ==
    IF ok THEN [ranStep(b, "prepare") EXCEPT !.pc = "clone"]
    ELSE fail(ranStep(b, "prepare"), "EACCES: permission denied, mkdir '" \o BUILD_DIR \o "'")

\* await cloneRepository settles
afterClone(b, ok) ==
    IF ok THEN [ranStep(b, "clone") EXCEPT !.pc = "recipe"]
    ELSE fail(ranStep(b, "clone"), "Git clone failed: " \o "Command failed: git clone")

\* the Dockerfile step: written, found in the repository, or the write throws
RecipeOutcomes == { "written", "existing", "failed" }

afterRecipe(b, outcome) ==
    IF outcome = "failed"
    THEN fail(ranStep(b, "recipe"), "ENOSPC: no space left on device, write")
    ELSE [(IF outcome = "written" THEN ranStep(b, "recipe") ELSE b) EXCEPT !.pc = "image"]

\* await buildImage settles
afterImage(b, ok) ==
    IF ok THEN [ranStep(b, "image") EXCEPT !.pc = "import"]
    ELSE fail(ranStep(b, "image"), "Docker build failed: " \o "Docker build exited with code 1")

\* await importImageToK3s settles
afterImport(b, ok) ==
    IF ok THEN [ranStep(b, "import") EXCEPT !.pc = "port"]
    ELSE fail(ranStep(b, "import"), "Image import failed: " \o "Command failed: docker save")

\* await detectExposedPort settles (it never throws): return the success
\* result, then the finally block
afterPort(b) ==
    [ranStep(b, "port") EXCEPT
        !.pc = "cleanup",
        !.result = << [success |-> TRUE, imageName |-> imageName(b.config[1]),
                       error |-> Undefined] >>]

\* the finally block: await cleanup(buildDir), its failure is swallowed
afterCleanup(b, ok) ==
    [b EXCEPT !.pc = "done", !.cleanup = IF ok THEN "removed" ELSE "failed"]

\* the workspace directory of a build
dirOf(id) == buildDirOf(builds[id].config[1].appName)

\* every variable outside the build engine and the live-set
outsideBuild ==
    << processorVars, lastError, heartbeatInterval, registered, startup, hb,
       lastHeartbeat, lastOp, toolVars >>

\* a poll admits DEPLOY commands
BuildPoll(commands) ==
    LET st == pollLoop(commands, LoopState)
        new == Range(st.started)
    IN  /\ new # {}
        /\ Cardinality({ i \in Ids : builds[i].pc # "idle" } \cup new) <= MaxBuilds
        /\ runningCommands' = st.runningCommands
        /\ runningCommandsCount' = st.runningCommandsCount
        /\ builds' = [i \in Ids |->
              IF i \in new
              THEN LET c == CHOOSE k \in Range(commands) : k.id = i
                   IN  [NoBuild EXCEPT !.pc = "admitted", !.config = << c.payload >>]
              ELSE builds[i]]
        /\ UNCHANGED << dirs, outsideBuild >>

\* DeployHandler.handle reaches buildService.build(...)
BuildStart(id) ==
    /\ builds[id].pc = "admitted"
    /\ builds' = [builds EXCEPT ![id] = build(builds[id].config[1])]
    /\ UNCHANGED << runningCommands, runningCommandsCount, dirs, outsideBuild >>

\* mkdir(BUILD_DIR) and rm(buildDir): on success the directory is gone
PrepareDone(id, ok) ==
    /\ builds[id].pc = "prepare"
    /\ builds' = [builds EXCEPT ![id] = afterPrepare(builds[id], ok)]
    /\ dirs' = IF ok THEN [dirs EXCEPT ![dirOf(id)] = 0] ELSE dirs
    /\ UNCHANGED << runningCommands, runningCommandsCount, outsideBuild >>

\* git clone: succeeds only into a directory that does not exist
CloneDone(id, ok) ==
    /\ builds[id].pc = "clone"
    /\ ok => dirs[dirOf(id)] = 0
    /\ builds' = [builds EXCEPT ![id] = afterClone(builds[id], ok)]
    /\ dirs' = IF ok THEN [dirs EXCEPT ![dirOf(id)] = id] ELSE dirs
    /\ UNCHANGED << runningCommands, runningCommandsCount, outsideBuild >>

RecipeDone(id, outcome) ==
    /\ builds[id].pc = "recipe"
    /\ builds' = [builds EXCEPT ![id] = afterRecipe(builds[id], outcome)]
    /\ UNCHANGED << runningCommands, runningCommandsCount, dirs, outsideBuild >>

ImageDone(id, ok) ==
    /\ builds[id].pc = "image"
    /\ builds' = [builds EXCEPT ![id] = afterImage(builds[id], ok)]
    /\ UNCHANGED << runningCommands, runningCommandsCount, dirs, outsideBuild >>

ImportDone(id, ok) ==
    /\ builds[id].pc = "import"
    /\ builds' = [builds EXCEPT ![id] = afterImport(builds[id], ok)]
    /\ UNCHANGED << runningCommands, runningCommandsCount, dirs, outsideBuild >>

PortDone(id) ==
    /\ builds[id].pc = "port"
    /\ builds' = [builds EXCEPT ![id] = afterPort(builds[id])]
    /\ UNCHANGED << runningCommands, runningCommandsCount, dirs, outsideBuild >>

\* fs.rm(buildDir, { recursive: true, force: true }) settles
CleanupDone(id, ok) ==
    /\ builds[id].pc = "cleanup"
    /\ builds' = [builds EXCEPT ![id] = afterCleanup(builds[id], ok)]
    /\ dirs' = IF ok THEN [dirs EXCEPT ![dirOf(id)] = 0] ELSE dirs
    /\ UNCHANGED << runningCommands, runningCommandsCount, outsideBuild >>

\* build() has returned and the command settles: the finally callback of
\* processCommand
BuildCommandDone(id) ==
    /\ builds[id].pc = "done" /\ id \in runningCommands
    /\ finallyCallback(id)
    /\ builds' = [builds EXCEPT ![id] = [NoBuild EXCEPT !.pc = "settled"]]
    /\ UNCHANGED << dirs, outsideBuild >>

BuildNext ==
    \/ \E commands \in CommandLists(DeployCommands) : BuildPoll(commands)
    \/ \E id \in Ids : BuildStart(id)
    \/ \E id \in Ids, ok \in BOOLEAN : PrepareDone(id, ok)
    \/ \E id \in Ids, ok \in BOOLEAN : CloneDone(id, ok)
    \/ \E id \in Ids, outcome \in RecipeOutcomes : RecipeDone(id, outcome)
    \/ \E id \in Ids, ok \in BOOLEAN : ImageDone(id, ok)
    \/ \E id \in Ids, ok \in BOOLEAN : ImportDone(id, ok)
    \/ \E id \in Ids : PortDone(id)
    \/ \E id \in Ids, ok \in BOOLEAN : CleanupDone(id, ok)
    \/ \E id \in Ids : BuildCommandDone(id)

BuildSpec == Init /\ [][BuildNext]_vars

(***************************************************************************)
(* BuildService.buildImage: one docker build process under a deadline.     *)
(* The promise is settled by whichever of three callbacks runs first: the  *)
(* deadline timer, the 'close' event and the 'error' event of the process. *)
(***************************************************************************)
\* const BUILD_TIMEOUT = 10 * 60 * 1000
BUILD_TIMEOUT == 10 * 60 * 1000

\* minutes of wall-clock time a buildImage call is followed for
MaxMinutes == 11

\* chunks of output the docker process writes at most
MaxChunks == 2

\* the image tags buildImage is called with
ImageTags ==
    { imageTag([appName |-> a, deploymentId |-> deploymentIdOf(1)]) : a \in AppNames }

\* the exit codes of the docker process: <<0>>, <<1>>; <<>> is the null code
\* of a process ended by a signal
ExitCodes == { <<0>>, <<1>> }

\* the text of an exit code in a template literal
codeText(code) == IF code = <<>> THEN "null" ELSE ToString(code[1])

\* what the deadline callback resolves with
timedOut(output) ==
    [success |-> FALSE, output |-> output,
     error |-> "Docker build timed out after " \o ToString(BUILD_TIMEOUT \div 1000) \o "s"]

\* what the 'close' callback resolves with
closed(code, output) ==
    [success |-> code = <<0>>, output |-> output,
     error |-> IF code # <<0>> THEN "Docker build exited with code " \o codeText(code)
               ELSE Undefined]

\* what the 'error' callback resolves with
errored(message, output) == [success |-> FALSE, output |-> output, error |-> message]

\* a promise whose last resolve call decides its value
resolveLastWins(img, value) == [img EXCEPT !.settled = << value >>]

\* resolve(value) of the promise: the first call settles it, later calls do
\* nothing
resolve(img, value) ==
    IF img.settled = <<>> THEN [img EXCEPT !.settled = << value >>] ELSE img

\* clearTimeout(timeout): a timer that fired or was cleared stays as it is
clearTimeout(img) ==
    IF img.timeout = "armed" THEN [img EXCEPT !.timeout = "cleared"] ELSE img

\* every variable outside the buildImage call
outsideImage ==
    << serviceVars, shell, kube, deploy, clone, recipe, waiter, dbcreate, dbdelete, relay, ssl, backup >>

\* buildImage(imageTag, buildDir, deploymentId): the executor spawns docker and
\* sets the deadline timer
buildImage(tag) ==
    /\ image.pc = "idle"
    /\ image' = [NoImage EXCEPT !.pc = "pending", !.tag = tag, !.timeout = "armed",
                                !.proc = "running"]
    /\ UNCHANGED outsideImage

\* proc.stdout.on('data') / proc.stderr.on('data'): output += text
ImageData(stream) ==
    /\ image.proc \in { "running", "exited", "killed" }
    /\ Len(image.output) < MaxChunks
    /\ image' = [image EXCEPT !.output = Append(@, stream)]
    /\ UNCHANGED outsideImage

\* a minute passes while the call is pending
ImageElapse ==
    /\ image.pc = "pending" /\ image.proc # "closed"
    /\ image.elapsed < MaxMinutes
    /\ image' = [image EXCEPT !.elapsed = @ + 1]
    /\ UNCHANGED outsideImage

\* the docker process ends by itself with an exit code
ImageExit(code) ==
    /\ image.proc = "running"
    /\ image' = [image EXCEPT !.proc = "exited", !.code = code]
    /\ UNCHANGED outsideImage

\* the setTimeout callback, no earlier than BUILD_TIMEOUT after the call:
\* proc.kill('SIGKILL'), which ends a process that is still running, then
\* resolve with the timed-out result
ImageTimeout ==
    /\ image.timeout = "armed"
    /\ image.elapsed * 60 * 1000 >= BUILD_TIMEOUT
    /\ LET killed == IF image.proc = "running"
                     THEN [image EXCEPT !.proc = "killed", !.signal = "SIGKILL",
                                        !.code = <<>>]
                     ELSE image
       IN  image' = resolve([killed EXCEPT !.timeout = "fired"], timedOut(image.output))
    /\ UNCHANGED outsideImage

\* proc.on('close'): clearTimeout, then resolve with the exit code's result
ImageClose ==
    /\ image.proc \in { "exited", "killed" }
    /\ image' = resolve([clearTimeout(image) EXCEPT !.proc = "closed"],
                        closed(image.code, image.output))
    /\ UNCHANGED outsideImage

\* proc.on('error'): docker could not be spawned; clearTimeout, then resolve
\* with the error's message. The 'close' event follows.
ImageError(message) ==
    /\ image.proc = "running" /\ image.output = <<>> /\ image.elapsed = 0
    /\ image' = resolve([clearTimeout(image) EXCEPT !.proc = "exited", !.code = <<>>],
                        errored(message, image.output))
    /\ UNCHANGED outsideImage

ImageNext ==
    \/ \E tag \in ImageTags : buildImage(tag)
    \/ \E stream \in { "stdout", "stderr" } : ImageData(stream)
    \/ ImageElapse
    \/ \E code \in ExitCodes : ImageExit(code)
    \/ ImageTimeout
    \/ ImageClose
    \/ ImageError("spawn docker ENOENT")

ImageSpec == Init /\ [][ImageNext]_vars

(***************************************************************************)
(* Shell command lines.  A text is a sequence of symbols: each character   *)
(* that sh treats specially is a symbol of its own, and a run of ordinary  *)
(* characters of a template ("kubectl", "-n") is one symbol.  exec() hands *)
(* the composed line to /bin/sh, which splits it into commands and words.  *)
(***************************************************************************)
\* the characters of a payload value: an ordinary one and three that sh
\* treats specially
Chars == { "a", "'", ";", " " }

\* the longest payload value
MaxLen == 2

\* the texts of at most n characters
RECURSIVE TextsOf(_)
TextsOf(n) ==
    IF n = 0 THEN { <<>> }
    ELSE LET S == TextsOf(n - 1)
         IN  S \cup { Append(t, c) : t \in { x \in S : Len(x) = n - 1 }, c \in Chars }

\* the payload values
Texts == TextsOf(MaxLen)

\* arg.replace(/'/g, "'\\''")
RECURSIVE replaceQuotes(_)
replaceQuotes(arg) ==
    IF arg = <<>> THEN <<>>
    ELSE (IF Head(arg) = "'" THEN << "'", "\\", "'", "'" >> ELSE << Head(arg) >>)
            \o replaceQuotes(Tail(arg))

\* escapeArg(arg): `'${arg.replace(/'/g, "'\\''")}'`
escapeArg(arg) == << "'" >> \o replaceQuotes(arg) \o << "'" >>

\* `kubectl delete <kind> ${escapeArg(appName)} -n ${escapeArg(namespace)} --ignore-not-found`
deleteCmd(kind, appName, namespace) ==
    << "kubectl", " ", "delete", " ", kind, " " >> \o escapeArg(appName)
        \o << " ", "-n", " " >> \o escapeArg(namespace) \o << " ", "--ignore-not-found" >>

\* `kubectl delete ingressroutetcp '${name}-external' -n '${namespace}' --ignore-not-found`
deleteIngressRouteCmd(name, namespace) ==
    << "kubectl", " ", "delete", " ", "ingressroutetcp", " ", "'" >> \o name
        \o << "-external", "'", " ", "-n", " ", "'" >> \o namespace
        \o << "'", " ", "--ignore-not-found" >>

\* `git clone --depth 1 --branch ${escapeArg(branch)} ${escapeArg(authUrl)} ${escapeArg(targetDir)}`
cloneCmd(branch, authUrl, targetDir) ==
    << "git", " ", "clone", " ", "--depth", " ", "1", " ", "--branch", " " >>
        \o escapeArg(branch) \o << " " >> \o escapeArg(authUrl) \o << " " >>
        \o escapeArg(targetDir)

\* sh before the first symbol of a line
ShStart ==
    [mode |-> "plain", word |-> <<>>, inWord |-> FALSE, cur |-> <<>>, cmds |-> <<>>]

\* sh ends the word it is reading, if any
shEndWord(st) ==
    IF st.inWord
    THEN [st EXCEPT !.cur = Append(@, st.word), !.word = <<>>, !.inWord = FALSE]
    ELSE st

\* sh ends the command it is reading, if it has any word
shEndCommand(st) ==
    LET w == shEndWord(st)
    IN  IF w.cur = <<>> THEN w ELSE [w EXCEPT !.cmds = Append(@, w.cur), !.cur = <<>>]

\* sh reads one symbol: inside single quotes every symbol but the quote is
\* literal; outside, a quote opens a quoted part, a backslash makes the next
\* symbol literal, a blank ends the word and a semicolon ends the command
shStep(st, c) ==
    CASE st.mode = "quoted" ->
            IF c = "'" THEN [st EXCEPT !.mode = "plain"]
            ELSE [st EXCEPT !.word = Append(@, c)]
      [] st.mode = "escaped" ->
            [st EXCEPT !.mode = "plain", !.word = Append(@, c)]
      [] OTHER ->
            CASE c = "'" -> [st EXCEPT !.mode = "quoted", !.inWord = TRUE]
              [] c = "\\" -> [st EXCEPT !.mode = "escaped", !.inWord = TRUE]
              [] c = " " -> shEndWord(st)
              [] c = ";" -> shEndCommand(st)
              [] OTHER -> [st EXCEPT !.word = Append(@, c), !.inWord = TRUE]

RECURSIVE shRead(_, _)
shRead(st, line) ==
    IF line = <<>> THEN st ELSE shRead(shStep(st, Head(line)), Tail(line))

\* how sh reads a command line: the commands it runs, each a sequence of
\* words, and whether the line ended outside every quoted part
sh(line) ==
    LET st == shRead(ShStart, line)
    IN  [ok |-> st.mode = "plain", cmds |-> shEndCommand(st).cmds]

\* a composed line, not yet handed to exec()
composed(by, values, cmd) ==
    [pc |-> "composed", by |-> by, values |-> values, cmd |-> cmd, parsed |-> <<>>]

\* every variable outside the composed command line
outsideShell ==
    << serviceVars, image, kube, deploy, clone, recipe, waiter, dbcreate, dbdelete, relay, ssl, backup >>

\* KubernetesService.deleteDeployment composes its first command
ComposeDeleteDeployment(appName, namespace) ==
    /\ shell.pc = "idle"
    /\ shell' = composed("deleteDeployment", << appName, namespace >>,
                         deleteCmd("deployment", appName, namespace))
    /\ UNCHANGED outsideShell

\* BuildService.cloneRepository composes the git clone command
ComposeClone(branch, authUrl) ==
    /\ shell.pc = "idle"
    /\ shell' = composed("cloneRepository", << branch, authUrl >>,
                         cloneCmd(branch, authUrl, << BUILD_DIR >>))
    /\ UNCHANGED outsideShell

\* DeleteDatabaseHandler.handle composes the delete of the external route
ComposeDeleteDatabase(name, namespace) ==
    /\ shell.pc = "idle"
    /\ shell' = composed("DeleteDatabaseHandler", << name, namespace >>,
                         deleteIngressRouteCmd(name, namespace))
    /\ UNCHANGED outsideShell

\* execAsync(cmd): /bin/sh reads the line
ShellExec ==
    /\ shell.pc = "composed"
    /\ shell' = [shell EXCEPT !.pc = "run", !.parsed = << sh(shell.cmd) >>]
    /\ UNCHANGED outsideShell

ShellNext ==
    \/ \E appName, namespace \in Texts : ComposeDeleteDeployment(appName, namespace)
    \/ \E branch, authUrl \in Texts : ComposeClone(branch, authUrl)
    \/ \E name, namespace \in Texts : ComposeDeleteDatabase(name, namespace)
    \/ ShellExec

ShellSpec == Init /\ [][ShellNext]_vars

(***************************************************************************)
(* KubernetesService.setEnvVars and deleteDeployment, and the UPDATE_ENV   *)
(* handler, against a cluster that holds the objects of one application.   *)
(***************************************************************************)
\* the kinds of object deleteDeployment removes, in its order
ObjectKinds == << "deployment", "service", "ingress" >>

\* the application and namespace of the calls
KubeApp == << "shop" >>
KubeNamespace == << "apps" >>

\* the envVars maps of the calls, as the sequence of their entries: the empty
\* map and two maps of one entry
EnvVarMaps == { <<>>, << << << "KEY" >>, << "a" >> >> >>, << << << "KEY" >>, << "'" >> >> >> }

\* Object.entries(envVars).map(([key, value]) => `${escapeArg(key)}=${escapeArg(value)}`).join(' ')
RECURSIVE envArgs(_)
envArgs(envVars) ==
    IF envVars = <<>> THEN <<>>
    ELSE escapeArg(Head(envVars)[1]) \o << "=" >> \o escapeArg(Head(envVars)[2])
            \o (IF Tail(envVars) = <<>> THEN <<>> ELSE << " " >> \o envArgs(Tail(envVars)))

\* `kubectl set env deployment/${escapeArg(appName)} ${envArgs} -n ${escapeArg(namespace)}`
setEnvCmd(appName, envVars, namespace) ==
    << "kubectl", " ", "set", " ", "env", " ", "deployment/" >> \o escapeArg(appName)
        \o << " " >> \o envArgs(envVars) \o << " ", "-n", " " >> \o escapeArg(namespace)

\* the three commands of deleteDeployment
deleteCommands(namespace, appName) ==
    [k \in 1..3 |-> deleteCmd(ObjectKinds[k], appName, namespace)]

\* strings.join(sep)
RECURSIVE join(_, _)
join(strings, sep) ==
    IF strings = <<>> THEN ""
    ELSE IF Len(strings) = 1 THEN strings[1]
    ELSE strings[1] \o sep \o join(Tail(strings), sep)

\* the subsequence of the results that failed
RECURSIVE failedOf(_)
failedOf(results) ==
    IF results = <<>> THEN <<>>
    ELSE (IF Head(results).success THEN <<>> ELSE << Head(results) >>)
            \o failedOf(Tail(results))

\* what kubectl does for the words of a command: without a connection to the
\* cluster it fails; delete removes the object, and fails for a missing object
\* unless --ignore-not-found is given; set env needs the deployment
kubectl(argv, objects, reachable) ==
    LET kind == argv[3][1]
        tolerant == << "--ignore-not-found" >> \in Range(argv)
        fails(message) ==
            [result |-> [success |-> FALSE, stdout |-> "", stderr |-> message,
                         error |-> "Command failed: " \o message],
             objects |-> objects]
        succeeds(out, left) ==
            [result |-> [success |-> TRUE, stdout |-> out, stderr |-> "", error |-> Undefined],
             objects |-> left]
    IN  IF ~reachable THEN fails("connection refused")
        ELSE IF argv[2] = << "delete" >>
        THEN IF kind \in objects THEN succeeds(kind \o " deleted", objects \ { kind })
             ELSE IF tolerant THEN succeeds("", objects)
             ELSE fails("NotFound")
        ELSE IF "deployment" \in objects THEN succeeds("env updated", objects)
             ELSE fails("NotFound")

\* executeCommand(cmd): sh runs the line's command
runCommand(cmd, objects, reachable) == kubectl(sh(cmd).cmds[1], objects, reachable)

\* the return of deleteDeployment once every command has run
deleteResult(results) ==
    LET failed == failedOf(results)
        stdout == join([k \in DOMAIN results |-> results[k].stdout], "\n")
        stderr == join([k \in DOMAIN results |-> results[k].stderr], "\n")
    IN  IF Len(failed) > 0
        THEN [success |-> FALSE, stdout |-> stdout, stderr |-> stderr,
              error |-> join([k \in DOMAIN failed |-> failed[k].error], "; ")]
        ELSE [success |-> TRUE, stdout |-> stdout, stderr |-> stderr, error |-> Undefined]

\* the call returns
kubeReturn(k, value) ==
    [k EXCEPT !.pc = "returned", !.returned = << value >>, !.queue = <<>>]

\* a loop that gives up at the first failed command
deleteStepFailFast(k, run) ==
    LET done == [k EXCEPT !.queue = Tail(@), !.executed = Append(@, Head(k.queue)),
                          !.results = Append(@, run.result), !.objects = run.objects]
    IN  IF done.queue = <<>> \/ ~run.result.success
        THEN kubeReturn(done, deleteResult(done.results))
        ELSE done

\* one iteration of `for (const cmd of commands) results.push(await executeCommand(cmd))`
\* and, after the last, the return
deleteStep(k, run) ==
    LET done == [k EXCEPT !.queue = Tail(@), !.executed = Append(@, Head(k.queue)),
                          !.results = Append(@, run.result), !.objects = run.objects]
    IN  IF done.queue = <<>> THEN kubeReturn(done, deleteResult(done.results)) ELSE done

\* a call starts: what the last call returned is kept
kubeCall(call, envVars) ==
    [NoKube EXCEPT !.pc = "called", !.call = call, !.envVars = envVars,
                   !.objects = kube.objects, !.before = kube.objects,
                   !.previous = IF kube.returned = <<>> THEN <<>>
                                ELSE << [call |-> kube.call,
                                         success |-> kube.returned[1].success] >>]

\* setEnvVars without the test for an empty map
setEnvVarsAlwaysRuns(k, namespace, appName, envVars) ==
    [k EXCEPT !.pc = "setenv", !.queue = << setEnvCmd(appName, envVars, namespace) >>]

\* setEnvVars up to its return or its executeCommand
setEnvVars(k, namespace, appName, envVars) ==
    IF Len(envVars) = 0
    THEN kubeReturn(k, [success |-> TRUE, stdout |-> "No environment variables to set",
                        stderr |-> "", error |-> Undefined])
    ELSE [k EXCEPT !.pc = "setenv", !.queue = << setEnvCmd(appName, envVars, namespace) >>]

\* every variable outside the KubernetesService call
outsideKube ==
    << serviceVars, image, shell, deploy, clone, recipe, waiter, dbcreate, dbdelete, relay, ssl, backup >>

\* the application's objects come to exist before any call (a deployment made
\* earlier)
KubeDeployed(objects) ==
    /\ kube.pc = "idle"
    /\ kube.objects = {} /\ objects # {}
    /\ kube' = [kube EXCEPT !.objects = objects]
    /\ UNCHANGED outsideKube

\* deleteDeployment(namespace, appName) up to its first executeCommand
deleteDeployment ==
    /\ kube.pc \in { "idle", "returned" }
    /\ kube' = [kubeCall("deleteDeployment", <<>>) EXCEPT
                    !.pc = "deleting", !.queue = deleteCommands(KubeNamespace, KubeApp)]
    /\ UNCHANGED outsideKube

\* an executeCommand of deleteDeployment returns
DeleteExecDone(reachable) ==
    /\ kube.pc = "deleting"
    /\ kube' = deleteStep(kube, runCommand(Head(kube.queue), kube.objects, reachable))
    /\ UNCHANGED outsideKube

\* setEnvVars(namespace, appName, envVars) called directly
SetEnvVarsCall(envVars) ==
    /\ kube.pc \in { "idle", "returned" }
    /\ kube' = setEnvVars(kubeCall("setEnvVars", envVars), KubeNamespace, KubeApp, envVars)
    /\ UNCHANGED outsideKube

\* UpdateEnvHandler.handle: an empty map returns at once, any other calls
\* setEnvVars
UpdateEnvHandle(envVars) ==
    /\ kube.pc \in { "idle", "returned" }
    /\ LET k == kubeCall("UPDATE_ENV", envVars)
       IN  kube' = IF Len(envVars) = 0
                   THEN kubeReturn(k, [success |-> TRUE, error |-> Undefined,
                                       logs |-> "No environment variables to update"])
                   ELSE setEnvVars(k, KubeNamespace, KubeApp, envVars)
    /\ UNCHANGED outsideKube

\* the executeCommand of setEnvVars returns; UpdateEnvHandler formats it
SetEnvExecDone(reachable) ==
    /\ kube.pc = "setenv"
    /\ LET run == runCommand(Head(kube.queue), kube.objects, reachable)
           done == [kube EXCEPT !.executed = Append(@, Head(kube.queue)),
                                !.results = Append(@, run.result),
                                !.objects = run.objects]
       IN  kube' = kubeReturn(done, IF kube.call = "UPDATE_ENV"
                                    THEN formatResult(run.result) ELSE run.result)
    /\ UNCHANGED outsideKube

KubeNext ==
    \/ \E objects \in SUBSET Range(ObjectKinds) : KubeDeployed(objects)
    \/ deleteDeployment
    \/ \E reachable \in BOOLEAN : DeleteExecDone(reachable)
    \/ \E envVars \in EnvVarMaps : SetEnvVarsCall(envVars)
    \/ \E envVars \in EnvVarMaps : UpdateEnvHandle(envVars)
    \/ \E reachable \in BOOLEAN : SetEnvExecDone(reachable)

KubeSpec == Init /\ [][KubeNext]_vars

(***************************************************************************)
(* DeployHandler.handle and the LogStreamService requests it issues.       *)
(* sendLog and updateStatus start a request and return; the request        *)
(* settles later, on its own.                                              *)
(***************************************************************************)
\* the payload of the DEPLOY command
DeployPayload ==
    [appName |-> "shop", namespace |-> "apps", domain |-> "shop.example.com",
     deploymentId |-> deploymentIdOf(1)]

\* what ensureNamespace and deployAppWithImage resolve with
ShellResults == CommandResults

\* what BuildService.build resolves with: it catches every error of its steps
BuildResults ==
    { [success |-> TRUE, imageName |-> imageName(DeployPayload), logs |-> "build logs",
       error |-> Undefined],
      [success |-> FALSE, imageName |-> "", logs |-> "build logs\nERROR: Git clone failed: x",
       error |-> "Git clone failed: x"] }

\* how a log-relay request ends: answered, refused, or cut off after 5 s
RequestOutcomes == { "ok", "failed", "timeout" }

\* axios.post / axios.patch is called: one more request in flight
request(d) == [d EXCEPT !.sent = @ + 1, !.requests = @ \cup { d.sent + 1 }]

\* LogStreamService.sendLog: starts the request and returns
sendLog(d) == request(d)

\* LogStreamService.updateStatus: starts the request and returns
updateStatus(d, status, message) ==
    [request(d) EXCEPT !.issued = Append(@, [status |-> status, message |-> message]),
                       !.trace = Append(@, status)]

\* handle() returns
deployReturn(d, value) == [d EXCEPT !.pc = "returned", !.result = << value >>]

\* an awaited step of handle() came back with success
stepDone(d, step) == [d EXCEPT !.trace = Append(@, step)]

\* error instanceof Error ? error.message : 'Unknown error'
deployErrorMessage(error) == IF error.isError THEN error.message ELSE "Unknown error"

\* handle() up to await ensureNamespace
handle(payload) ==
    sendLog(sendLog(updateStatus([NoDeploy EXCEPT !.pc = "namespace"],
                                 "building", Undefined)))

\* after ensureNamespace, up to the return or the first await of build()
afterNamespace(d, nsResult) ==
    IF ~nsResult.success
    THEN LET message == "Namespace creation failed: " \o nsResult.error
         IN  deployReturn(updateStatus(sendLog(d), "failed", message),
                          [success |-> FALSE, error |-> message, logs |-> nsResult.stdout])
    ELSE LET ready == [stepDone(d, "namespace") EXCEPT
                          !.logs = Append(@, "Namespace " \o DeployPayload.namespace \o " ready")]
         IN  [sendLog(sendLog(ready)) EXCEPT !.pc = "build"]

\* after build() without the status update
afterBuildResultNoStatus(d, buildResult) ==
    LET logged == [d EXCEPT !.logs = Append(@, buildResult.logs)]
    IN  IF ~buildResult.success
        THEN LET message == "Build failed: " \o buildResult.error
             IN  deployReturn(updateStatus(logged, "failed", message),
                              [success |-> FALSE, error |-> message,
                               logs |-> join(logged.logs, "\n")])
        ELSE [sendLog(sendLog(stepDone(logged, "build"))) EXCEPT !.pc = "deploy"]

\* after build(), up to the return or await deployAppWithImage
afterBuildResult(d, buildResult) ==
    LET logged == [d EXCEPT !.logs = Append(@, buildResult.logs)]
    IN  IF ~buildResult.success
        THEN LET message == "Build failed: " \o buildResult.error
             IN  deployReturn(updateStatus(logged, "failed", message),
                              [success |-> FALSE, error |-> message,
                               logs |-> join(logged.logs, "\n")])
        ELSE [sendLog(sendLog(updateStatus(stepDone(logged, "build"), "deploying",
                                           Undefined)))
                EXCEPT !.pc = "deploy"]

\* after deployAppWithImage with the ready status issued whatever it returned
afterDeployAlwaysReady(d, deployResult) ==
    LET logged == [stepDone(d, "deploy") EXCEPT
                      !.logs = @ \o << "Deployed to Kubernetes: " \o DeployPayload.appName,
                                       "Domain: " \o DeployPayload.domain >>]
    IN  deployReturn(updateStatus(sendLog(logged), "ready", Undefined),
                     [success |-> deployResult.success, error |-> deployResult.error,
                      logs |-> join(logged.logs, "\n")])

\* after deployAppWithImage, up to the return
afterDeploy(d, deployResult) ==
    IF ~deployResult.success
    THEN LET message == "Deployment failed: " \o deployResult.error
         IN  deployReturn(updateStatus(sendLog(d), "failed", message),
                          [success |-> FALSE, error |-> message,
                           logs |-> join(d.logs, "\n") \o "\n" \o deployResult.stderr])
    ELSE LET logged == [stepDone(d, "deploy") EXCEPT
                           !.logs = @ \o << "Deployed to Kubernetes: " \o DeployPayload.appName,
                                            "Domain: " \o DeployPayload.domain >>]
         IN  deployReturn(updateStatus(sendLog(logged), "ready", Undefined),
                          [success |-> TRUE, error |-> Undefined,
                           logs |-> join(logged.logs, "\n")])

\* the catch block of handle()
deployCaught(d, error) ==
    LET message == deployErrorMessage(error)
    IN  deployReturn(updateStatus(sendLog(d), "failed", message),
                     [success |-> FALSE, error |-> message, logs |-> join(d.logs, "\n")])

\* a request whose failure is thrown into the handler that issued it
requestSettledRaises(d, id, outcome) ==
    LET gone == [d EXCEPT !.requests = @ \ { id }]
    IN  IF outcome = "ok" \/ d.pc = "returned" THEN gone
        ELSE deployCaught(gone, [isError |-> TRUE, message |-> "timeout of 5000ms exceeded"])

\* a request settles: the .catch callback logs a failure, and nothing else
\* happens
requestSettled(d, id, outcome) ==
    [d EXCEPT !.requests = @ \ { id },
              !.errorLogged = @ \/ outcome # "ok"]

\* every variable outside the DeployHandler run
outsideDeploy ==
    << serviceVars, image, shell, kube, clone, recipe, waiter, dbcreate, dbdelete, relay, ssl, backup >>

\* DeployHandler.handle is called
DeployHandle ==
    /\ deploy.pc = "idle"
    /\ deploy' = handle(DeployPayload)
    /\ UNCHANGED outsideDeploy

\* ensureNamespace resolves
NamespaceDone(nsResult) ==
    /\ deploy.pc = "namespace"
    /\ deploy' = afterNamespace(deploy, nsResult)
    /\ UNCHANGED outsideDeploy

\* BuildService.build resolves
DeployBuildDone(buildResult) ==
    /\ deploy.pc = "build"
    /\ deploy' = afterBuildResult(deploy, buildResult)
    /\ UNCHANGED outsideDeploy

\* deployAppWithImage resolves
DeployDone(deployResult) ==
    /\ deploy.pc = "deploy"
    /\ deploy' = afterDeploy(deploy, deployResult)
    /\ UNCHANGED outsideDeploy

\* ensureNamespace or deployAppWithImage rejects
DeployStepThrows(error) ==
    /\ deploy.pc \in { "namespace", "deploy" }
    /\ deploy' = deployCaught(deploy, error)
    /\ UNCHANGED outsideDeploy

\* a sendLog or updateStatus request settles
RequestSettled(id, outcome) ==
    /\ id \in deploy.requests
    /\ deploy' = requestSettled(deploy, id, outcome)
    /\ UNCHANGED outsideDeploy

DeployNext ==
    \/ DeployHandle
    \/ \E nsResult \in ShellResults : NamespaceDone(nsResult)
    \/ \E buildResult \in BuildResults : DeployBuildDone(buildResult)
    \/ \E deployResult \in ShellResults : DeployDone(deployResult)
    \/ \E error \in Thrown : DeployStepThrows(error)
    \/ \E id \in deploy.requests, outcome \in RequestOutcomes : RequestSettled(id, outcome)

DeploySpec == Init /\ [][DeployNext]_vars

(***************************************************************************)
(* BuildService.cloneRepository with a token, and the masking of what      *)
(* build() logs, streams and returns.  Texts are sequences of symbols as   *)
(* for command lines; "https://", a host name and a user name are one      *)
(* symbol each, and the characters of a token are symbols of their own.    *)
(***************************************************************************)
\* the characters of a token: a secret character, and the one character the
\* masking patterns treat specially
TokenChars == { "t", "@" }

\* the longest token
MaxTokenLen == 3

\* the texts of at most n token characters
RECURSIVE TokensOf(_)
TokensOf(n) ==
    IF n = 0 THEN { <<>> }
    ELSE LET S == TokensOf(n - 1)
         IN  S \cup { Append(t, c) : t \in { x \in S : Len(x) = n - 1 }, c \in TokenChars }

\* the gitToken values; the empty text stands for no token (undefined or '')
Tokens == TokensOf(MaxTokenLen)

\* the gitRepoUrl values: a GitHub URL, a URL of another host, an https URL
\* that new URL() rejects (its port is no number) and an scp-like address,
\* which new URL() rejects too
GitUrls ==
    { << "https://", "github.com", "/owner/repo.git" >>,
      << "https://", "gitlab.com", "/owner/repo.git" >>,
      << "https://", "github.com", ":", "abc", "/owner/repo.git" >>,
      << "git", "@", "github.com", ":", "owner/repo.git" >> }

\* new URL(gitUrl): scheme, host and path, or nothing when the parse throws
parseUrl(gitUrl) ==
    IF Len(gitUrl) = 3 /\ gitUrl[1] = "https://"
    THEN << [hostname |-> gitUrl[2], pathname |-> gitUrl[3]] >>
    ELSE <<>>

\* the percent-encoding of url.password = token: '@' becomes %40
RECURSIVE encodeUserinfo(_)
encodeUserinfo(token) ==
    IF token = <<>> THEN <<>>
    ELSE << IF Head(token) = "@" THEN "%40" ELSE Head(token) >> \o encodeUserinfo(Tail(token))

\* text.replace(pattern, replacement) for a pattern of one symbol: the first
\* occurrence is replaced
RECURSIVE replaceFirst(_, _, _)
replaceFirst(text, pattern, replacement) ==
    IF text = <<>> THEN <<>>
    ELSE IF Head(text) = pattern THEN replacement \o Tail(text)
    ELSE << Head(text) >> \o replaceFirst(Tail(text), pattern, replacement)

\* getAuthenticatedGitUrl(gitUrl, token)
getAuthenticatedGitUrl(gitUrl, token) ==
    IF token = <<>> THEN gitUrl
    ELSE LET url == parseUrl(gitUrl)
         IN  IF url # <<>>
             THEN << "https://",
                     IF url[1].hostname = "github.com" THEN "x-access-token" ELSE "oauth2",
                     ":" >> \o encodeUserinfo(token) \o << "@", url[1].hostname, url[1].pathname >>
             ELSE replaceFirst(gitUrl, "https://",
                               << "https://", "x-access-token", ":" >> \o token \o << "@" >>)

\* the number of leading symbols of a text that are not '@'
RECURSIVE runLength(_)
runLength(text) ==
    IF text = <<>> \/ Head(text) = "@" THEN 0 ELSE 1 + runLength(Tail(text))

\* text.replace(/<user>:[^@]+@/g, '<user>:***@')
RECURSIVE maskUser(_, _)
maskUser(text, user) ==
    IF text = <<>> THEN <<>>
    ELSE LET rest == SubSeq(text, 3, Len(text))
             n == runLength(rest)
         IN  IF /\ Head(text) = user /\ Len(text) >= 2 /\ text[2] = ":"
                /\ n >= 1 /\ Len(rest) > n
             THEN << user, ":", "***", "@" >> \o maskUser(SubSeq(rest, n + 2, Len(rest)), user)
             ELSE << Head(text) >> \o maskUser(Tail(text), user)

\* maskToken(text)
maskToken(text) == maskUser(maskUser(text, "x-access-token"), "oauth2")

\* what git writes to stdout and stderr: progress, or a failure that names the
\* URL it was given
GitOutputs(authUrl) ==
    { << "Cloning into 'repo'..." >>,
      << "fatal: unable to access '" >> \o authUrl \o << "'" >> }

\* cloneRepository after execAsync(cmd): the masked output, and for a failed
\* command the masked message of the exec error, which quotes the command
cloneResult(cmd, ok, gitOutput) ==
    IF ok
    THEN [success |-> TRUE, output |-> maskToken(gitOutput), error |-> <<>>]
    ELSE [success |-> FALSE, output |-> maskToken(gitOutput),
          error |-> maskToken(<< "Command failed: " >> \o cmd \o << "\n" >> \o gitOutput)]

\* the strings build() logs, streams and returns for a clone result
buildEmits(result) ==
    IF result.success THEN { result.output }
    ELSE LET safeError == maskToken(IF result.error # <<>> THEN result.error
                                    ELSE << "Unknown error" >>)
             safeOutput == maskToken(result.output)
         IN  { result.output,
               << "Clone output:\n" >> \o safeOutput,
               << "Failed to clone repository: " >> \o safeError,
               << "Git clone failed: " >> \o safeError,
               << "ERROR: Git clone failed: " >> \o safeError,
               << "Build failed: Git clone failed: " >> \o safeError }

\* every variable outside the clone
outsideClone ==
    << serviceVars, image, shell, kube, deploy, recipe, waiter, dbcreate, dbdelete, relay, ssl, backup >>

\* cloneRepository(url, branch, targetDir, token) up to await execAsync(cmd)
cloneRepository(gitUrl, token) ==
    /\ clone.pc = "idle"
    /\ LET authUrl == getAuthenticatedGitUrl(gitUrl, token)
       IN  clone' = [NoClone EXCEPT !.pc = "cloning", !.gitUrl = gitUrl, !.token = token,
                                    !.authUrl = authUrl,
                                    !.cmd = cloneCmd(<< "main" >>, authUrl, << BUILD_DIR >>)]
    /\ UNCHANGED outsideClone

\* execAsync settles; cloneRepository returns and build() handles the result
CloneExecDone(ok, gitOutput) ==
    /\ clone.pc = "cloning"
    /\ LET result == cloneResult(clone.cmd, ok, gitOutput)
       IN  clone' = [clone EXCEPT !.pc = "done", !.result = << result >>,
                                  !.emitted = buildEmits(result)]
    /\ UNCHANGED outsideClone

CloneNext ==
    \/ \E gitUrl \in GitUrls, token \in Tokens : cloneRepository(gitUrl, token)
    \/ \E ok \in BOOLEAN, gitOutput \in GitOutputs(clone.authUrl) : CloneExecDone(ok, gitOutput)

CloneSpec == Init /\ [][CloneNext]_vars

(***************************************************************************)
(* The Dockerfile step of BuildService.build: use the repository's file or *)
(* write a generated recipe.                                               *)
(***************************************************************************)
\* the frameworks of a BuildConfig
Frameworks ==
    { "angular", "react", "react-vite", "vue", "vue-vite", "svelte", "svelte-vite",
      "vite", "static", "nextjs", "nuxt", "nodejs", "nestjs", "docker" }

\* the build configurations: any framework, with or without a start command
\* and an output directory
BuildConfigs ==
    [framework : Frameworks, startCommand : { Undefined, "node server.js" },
     outputDirectory : { Undefined, "build" }]

\* the results of detectPackageManager
PackageManagers == { "npm", "pnpm", "yarn" }

\* the Dockerfile at the root of the cloned repository
RepositoryDockerfile ==
    [recipe |-> "repository", pm |-> Undefined, outputDirectory |-> Undefined]

\* isStaticFramework(framework)
isStaticFramework(framework) ==
    framework \in { "angular", "react", "react-vite", "vue", "vue-vite", "svelte",
                    "svelte-vite", "vite", "static" }

\* generateDockerfile(config, pm): which recipe, for which package manager
\* and output directory
generateDockerfile(config, pm) ==
    LET static == [recipe |-> "static", pm |-> pm,
                   outputDirectory |-> IF config.outputDirectory # Undefined
                                       THEN config.outputDirectory ELSE "dist"]
        plain(kind) == [recipe |-> kind, pm |-> pm, outputDirectory |-> Undefined]
    IN  IF isStaticFramework(config.framework)
           \/ (config.framework = "static" /\ config.outputDirectory # Undefined)
        THEN IF config.framework = "svelte" THEN plain("svelte-classic") ELSE static
        ELSE IF config.framework = "nextjs" THEN plain("nextjs")
        ELSE IF config.framework = "nuxt" THEN plain("nuxt")
        ELSE IF config.framework \in { "nodejs", "nestjs" } \/ config.startCommand # Undefined
        THEN plain("nodejs")
        ELSE static

\* a recipe is written whenever the repository has no Dockerfile
needsRecipeWhenMissing(framework, dockerfileExists) == ~dockerfileExists

\* config.framework !== 'docker' || !dockerfileExists
needsRecipe(framework, dockerfileExists) == framework # "docker" \/ ~dockerfileExists

\* every variable outside the Dockerfile step
outsideRecipe ==
    << serviceVars, image, shell, kube, deploy, clone, waiter, dbcreate, dbdelete, relay, ssl, backup >>

\* build() after fileExists(dockerfilePath): up to await fs.writeFile, or on
\* to the image build with the repository's file
RecipeStep(config, dockerfileExists, pm) ==
    /\ recipe.pc = "idle"
    /\ recipe' = [NoRecipe EXCEPT
                    !.pc = IF needsRecipe(config.framework, dockerfileExists)
                           THEN "writing" ELSE "image",
                    !.config = << config >>, !.exists = dockerfileExists, !.pm = pm,
                    !.file = IF dockerfileExists THEN << RepositoryDockerfile >> ELSE <<>>]
    /\ UNCHANGED outsideRecipe

\* fs.writeFile(dockerfilePath, dockerfile) settles; a failure ends the build
RecipeWriteDone(ok) ==
    /\ recipe.pc = "writing"
    /\ recipe' = IF ok
                 THEN [recipe EXCEPT !.pc = "image", !.writes = @ + 1,
                                     !.file = << generateDockerfile(recipe.config[1], recipe.pm) >>]
                 ELSE [recipe EXCEPT !.pc = "failed"]
    /\ UNCHANGED outsideRecipe

\* buildImage(imageTag, buildDir, deploymentId): docker reads the Dockerfile
RecipeImageBuild ==
    /\ recipe.pc = "image"
    /\ recipe' = [recipe EXCEPT !.pc = "built", !.used = recipe.file]
    /\ UNCHANGED outsideRecipe

RecipeNext ==
    \/ \E config \in BuildConfigs, dockerfileExists \in BOOLEAN, pm \in PackageManagers :
            RecipeStep(config, dockerfileExists, pm)
    \/ \E ok \in BOOLEAN : RecipeWriteDone(ok)
    \/ RecipeImageBuild

RecipeSpec == Init /\ [][RecipeNext]_vars

(***************************************************************************)
(* CreateDatabaseHandler.waitForReady: probe the StatefulSet, sleep, and   *)
(* give up at the deadline.  Time is counted in milliseconds since the     *)
(* call.                                                                   *)
(***************************************************************************)
\* waitForReady(name, namespace, timeoutMs = 120000)
ReadyTimeoutMs == 120000

\* setTimeout(resolve, 5000)
ProbeDelayMs == 5000

\* executeCommand(command, timeoutMs = 120000): the longest a probe can take
CommandTimeoutMs == 120000

\* how long a probe takes: no time, as long as a sleep, or up to its timeout
ProbeDurations == { 0, ProbeDelayMs, CommandTimeoutMs }

\* what a probe returns: a failed command, or the jsonpath output, which is
\* empty before any replica is ready
ProbeResults ==
    { [success |-> FALSE, stdout |-> <<>>],
      [success |-> TRUE, stdout |-> <<>>],
      [success |-> TRUE, stdout |-> << "0" >>],
      [success |-> TRUE, stdout |-> << "1", "\n" >>],
      [success |-> TRUE, stdout |-> << "1" >>] }

\* stdout.trim(): leading and trailing white space removed
RECURSIVE trimStart(_)
trimStart(text) ==
    IF text # <<>> /\ Head(text) \in { " ", "\n" } THEN trimStart(Tail(text)) ELSE text

RECURSIVE trimEnd(_)
trimEnd(text) ==
    IF text # <<>> /\ text[Len(text)] \in { " ", "\n" }
    THEN trimEnd(SubSeq(text, 1, Len(text) - 1)) ELSE text

trim(text) == trimEnd(trimStart(text))

\* result.success && result.stdout.trim() === '1'
isReady(result) == result.success /\ trim(result.stdout) = << "1" >>

\* a loop that never gives up
withinDeadlineAlways(elapsed) == TRUE

\* the loop test: Date.now() - startTime < timeoutMs
withinDeadline(elapsed) == elapsed < ReadyTimeoutMs

\* the loop test and what follows it: the next probe, or the throw after the
\* loop
loopTest(w) ==
    IF withinDeadline(w.elapsed)
    THEN [w EXCEPT !.pc = "probing", !.probes = @ + 1, !.start = w.elapsed]
    ELSE [w EXCEPT !.pc = "thrown",
                   !.error = "Database db did not become ready within "
                                \o ToString(ReadyTimeoutMs \div 1000) \o "s"]

\* every variable outside the waiter
outsideWaiter ==
    << serviceVars, image, shell, kube, deploy, clone, recipe, dbcreate, dbdelete, relay, ssl, backup >>

\* waitForReady(name, namespace): the first loop test and probe
waitForReady ==
    /\ waiter.pc = "idle"
    /\ waiter' = loopTest(NoWaiter)
    /\ UNCHANGED outsideWaiter

\* the probe's executeCommand returns after some time: return when it shows
\* one ready replica, else start the sleep
ProbeDone(duration, result) ==
    /\ waiter.pc = "probing"
    /\ LET now == waiter.elapsed + duration
       IN  waiter' = IF isReady(result)
                     THEN [waiter EXCEPT !.pc = "returned", !.elapsed = now,
                                         !.observed = TRUE, !.lastEnd = now]
                     ELSE [waiter EXCEPT !.pc = "sleeping", !.elapsed = now,
                                         !.lastEnd = now]
    /\ UNCHANGED outsideWaiter

\* the 5 s timer fires: the loop test again
ProbeSleepDone ==
    /\ waiter.pc = "sleeping"
    /\ waiter' = loopTest([waiter EXCEPT !.elapsed = @ + ProbeDelayMs])
    /\ UNCHANGED outsideWaiter

WaiterNext ==
    \/ waitForReady
    \/ \E duration \in ProbeDurations, result \in ProbeResults : ProbeDone(duration, result)
    \/ ProbeSleepDone

WaiterSpec == Init /\ [][WaiterNext]_vars

(***************************************************************************)
(* CreateDatabaseHandler.handle: the steps of CREATE_DATABASE, one action  *)
(* per awaited call.                                                       *)
(***************************************************************************)
DatabaseTypes == { "postgres", "mongodb", "redis" }

\* the CREATE_DATABASE payloads: the engine, and whether external access is
\* asked for and a host is given
CreateDatabasePayloads ==
    [type : DatabaseTypes, enableExternalAccess : BOOLEAN,
     externalHost : { Undefined, "db.example.com" }]

\* the keys of the credentials Secret for an engine
envEntries(type) ==
    CASE type = "postgres" -> { "POSTGRES_USER", "POSTGRES_PASSWORD", "POSTGRES_DB" }
      [] type = "mongodb" -> { "MONGO_INITDB_ROOT_USERNAME", "MONGO_INITDB_ROOT_PASSWORD",
                               "MONGO_INITDB_DATABASE" }
      [] OTHER -> { "REDIS_PASSWORD" }

\* payload.enableExternalAccess && payload.externalHost
wantsExternalAccess(p) == p.enableExternalAccess /\ p.externalHost # Undefined

\* the step handle awaits after a step that did not throw
stepAfter(step, p) ==
    CASE step = "namespace" -> "secret"
      [] step = "secret" -> "pvc"
      [] step = "pvc" -> "statefulset"
      [] step = "statefulset" -> "service"
      [] step = "service" -> IF wantsExternalAccess(p) THEN "external" ELSE "ready"
      [] step = "external" -> "ready"
      [] step = "ready" -> "running"

\* the Error a step throws when its applyYaml result is a failure, when the
\* waiter gives up, or when the status request is rejected
stepError(step, result) ==
    CASE step = "secret" -> "Failed to create secret: " \o result.error
      [] step = "pvc" -> "Failed to create PVC: " \o result.error
      [] step = "statefulset" -> "Failed to create StatefulSet: " \o result.error
      [] step = "service" -> "Failed to create Service: " \o result.error
      [] step = "external" -> "Failed to create external access: " \o result.error
      [] step = "ready" -> "Database db did not become ready within 120s"
      [] OTHER -> "Request failed with status code 500"

\* start the next step
createStart(d, step) == [d EXCEPT !.pc = step, !.ran = Append(@, step)]

\* the catch block: report status error with the message, errors of that
\* request swallowed
createCaught(d, step, msg) ==
    [d EXCEPT !.pc = "reporting", !.failed = @ \cup { step }, !.message = msg,
              !.statuses = Append(@, << "error", msg >>)]

\* every variable outside the handler
outsideDbCreate ==
    << serviceVars, image, shell, kube, deploy, clone, recipe, waiter, dbdelete, relay, ssl, backup >>

\* handle(command): ensureNamespace is called first
CreateDatabaseHandle(p) ==
    /\ dbcreate.pc = "idle"
    /\ dbcreate' = createStart([NoDbCreate EXCEPT !.payload = p], "namespace")
    /\ UNCHANGED outsideDbCreate

\* ensureNamespace resolves: its result is dropped, the Secret is applied next
DbNamespaceDone(result) ==
    /\ dbcreate.pc = "namespace"
    /\ dbcreate' = createStart([dbcreate EXCEPT !.failed =
                                    IF result.success THEN @ ELSE @ \cup { "namespace" }],
                               "secret")
    /\ UNCHANGED outsideDbCreate

\* applyYaml of the Secret, PVC, StatefulSet, Service or IngressRouteTCP
\* resolves: a failed result is thrown
DbApplyDone(result) ==
    /\ dbcreate.pc \in { "secret", "pvc", "statefulset", "service", "external" }
    /\ dbcreate' = IF result.success
                   THEN createStart(dbcreate, stepAfter(dbcreate.pc, dbcreate.payload))
                   ELSE createCaught(dbcreate, dbcreate.pc, stepError(dbcreate.pc, result))
    /\ UNCHANGED outsideDbCreate

\* waitForReady returns or throws
DbReadyDone(ready) ==
    /\ dbcreate.pc = "ready"
    /\ dbcreate' = IF ready
                   THEN [createStart(dbcreate, "running")
                            EXCEPT !.statuses = Append(@, << "running", Undefined >>)]
                   ELSE createCaught(dbcreate, "ready", stepError("ready", Undefined))
    /\ UNCHANGED outsideDbCreate

\* updateDatabaseStatus(databaseId, 'running') settles
DbRunningDone(ok) ==
    /\ dbcreate.pc = "running"
    /\ dbcreate' = IF ok
                   THEN [dbcreate EXCEPT !.pc = "done",
                            !.result = [success |-> TRUE, logs |-> "Database db created",
                                        error |-> Undefined]]
                   ELSE createCaught(dbcreate, "running", stepError("running", Undefined))
    /\ UNCHANGED outsideDbCreate

\* updateDatabaseStatus(databaseId, 'error', msg) settles either way
DbErrorReported ==
    /\ dbcreate.pc = "reporting"
    /\ dbcreate' = [dbcreate EXCEPT !.pc = "done",
                        !.result = [success |-> FALSE, logs |-> Undefined,
                                    error |-> dbcreate.message]]
    /\ UNCHANGED outsideDbCreate

DbCreateNext ==
    \/ \E p \in CreateDatabasePayloads : CreateDatabaseHandle(p)
    \/ \E result \in ShellResults : DbNamespaceDone(result)
    \/ \E result \in ShellResults : DbApplyDone(result)
    \/ \E ready \in BOOLEAN : DbReadyDone(ready)
    \/ \E ok \in BOOLEAN : DbRunningDone(ok)
    \/ DbErrorReported

DbCreateSpec == Init /\ [][DbCreateNext]_vars

(***************************************************************************)
(* DeleteDatabaseHandler.handle: the kubectl deletes of DELETE_DATABASE    *)
(* and the confirmation, one action per awaited call.                      *)
(***************************************************************************)
\* the resources deleted in the loop
resources == << "statefulset", "service", "pvc", "secret" >>

\* the deletes of one call, in order: the IngressRouteTCP first when
\* externalAccessEnabled
deleteQueue(externalAccessEnabled) ==
    IF externalAccessEnabled THEN << "ingressroutetcp" >> \o resources ELSE resources

\* every variable outside the handler
outsideDbDelete ==
    << serviceVars, image, shell, kube, deploy, clone, recipe, waiter, dbcreate, relay, ssl, backup >>

\* handle(command): the first executeCommand is issued
DeleteDatabaseHandle(externalAccessEnabled) ==
    /\ dbdelete.pc = "idle"
    /\ LET queue == deleteQueue(externalAccessEnabled)
       IN  dbdelete' = [NoDbDelete EXCEPT !.pc = "deleting", !.queue = Tail(queue),
                                          !.issued = << Head(queue) >>]
    /\ UNCHANGED outsideDbDelete

\* an executeCommand resolves: its result is dropped and the next delete, or
\* the confirmation, is issued
DbDeleteExecDone(result) ==
    /\ dbdelete.pc = "deleting"
    /\ LET seen == [dbdelete EXCEPT !.outcomes = Append(@, result.success)]
       IN  dbdelete' = IF seen.queue # <<>>
                       THEN [seen EXCEPT !.queue = Tail(@),
                                         !.issued = Append(@, Head(seen.queue))]
                       ELSE [seen EXCEPT !.pc = "confirming"]
    /\ UNCHANGED outsideDbDelete

\* confirmDatabaseDeletion settles: success, or the catch block's failure
DbConfirmSettled(ok) ==
    /\ dbdelete.pc = "confirming"
    /\ dbdelete' = IF ok
                   THEN [dbdelete EXCEPT !.pc = "done", !.confirmed = TRUE,
                            !.result = [success |-> TRUE, logs |-> "Database db deleted",
                                        error |-> Undefined]]
                   ELSE [dbdelete EXCEPT !.pc = "done",
                            !.result = [success |-> FALSE, logs |-> Undefined,
                                        error |-> "Request failed with status code 500"]]
    /\ UNCHANGED outsideDbDelete

DbDeleteNext ==
    \/ \E externalAccessEnabled \in BOOLEAN : DeleteDatabaseHandle(externalAccessEnabled)
    \/ \E result \in CommandResults : DbDeleteExecDone(result)
    \/ \E ok \in BOOLEAN : DbConfirmSettled(ok)

DbDeleteSpec == Init /\ [][DbDeleteNext]_vars

(***************************************************************************)
(* BuildService.buildImage, the log streaming: the "data" listeners of     *)
(* the two pipes, which share one line buffer, and the flush on "close".   *)
(* A text is a sequence of characters.                                     *)
(***************************************************************************)
\* the longest text a pipe carries
MaxText == 2

\* the characters docker writes to stdout and to stderr
StdoutChars == { "o", " ", "\n" }
StderrChars == { "e", " ", "\n" }

RECURSIVE PipeTexts(_, _)
PipeTexts(chars, n) ==
    IF n = 0 THEN { <<>> }
    ELSE LET S == PipeTexts(chars, n - 1)
         IN  S \cup { Append(t, c) : t \in { x \in S : Len(x) = n - 1 }, c \in chars }

\* text.split('\n')
RECURSIVE split(_)
split(text) ==
    IF \A i \in 1..Len(text) : text[i] # "\n" THEN << text >>
    ELSE LET i == CHOOSE j \in 1..Len(text) :
                      text[j] = "\n" /\ \A k \in 1..(j - 1) : text[k] # "\n"
         IN  << SubSeq(text, 1, i - 1) >> \o split(SubSeq(text, i + 1, Len(text)))

\* streamLine applied to each line in turn: the trimmed line is sent when it
\* is not empty
RECURSIVE streamLines(_, _)
streamLines(sent, lines) ==
    IF lines = <<>> THEN sent
    ELSE streamLines(IF trim(Head(lines)) # <<>> THEN Append(sent, trim(Head(lines)))
                     ELSE sent,
                     Tail(lines))

\* a "data" listener: append to output and to the line buffer, split, keep the
\* last piece, stream the others
onData(r, text) ==
    LET lines == split(r.lineBuffer \o text)
    IN  [r EXCEPT !.output = @ \o text,
                  !.lineBuffer = lines[Len(lines)],
                  !.sent = streamLines(@, SubSeq(lines, 1, Len(lines) - 1))]

\* every variable outside the streaming
outsideRelay ==
    << serviceVars, image, shell, kube, deploy, clone, recipe, waiter, dbcreate, dbdelete, ssl, backup >>

\* spawn('docker', args): the process will write these texts to its pipes
RelaySpawn(out, err) ==
    /\ relay.pc = "idle"
    /\ relay' = [NoRelay EXCEPT !.pc = "running", !.stdoutText = out, !.stderrText = err,
                                !.stdout = out, !.stderr = err]
    /\ UNCHANGED outsideRelay

\* proc.stdout "data": the next n characters of stdout arrive as one chunk
StdoutData(n) ==
    /\ relay.pc = "running"
    /\ n \in 1..Len(relay.stdout)
    /\ relay' = [onData(relay, SubSeq(relay.stdout, 1, n))
                    EXCEPT !.stdout = SubSeq(@, n + 1, Len(@))]
    /\ UNCHANGED outsideRelay

\* proc.stderr "data": the next n characters of stderr arrive as one chunk
StderrData(n) ==
    /\ relay.pc = "running"
    /\ n \in 1..Len(relay.stderr)
    /\ relay' = [onData(relay, SubSeq(relay.stderr, 1, n))
                    EXCEPT !.stderr = SubSeq(@, n + 1, Len(@))]
    /\ UNCHANGED outsideRelay

\* proc "close", emitted once both pipes have ended: the rest of the line
\* buffer is streamed when it is not blank
RelayClose ==
    /\ relay.pc = "running"
    /\ relay.stdout = <<>> /\ relay.stderr = <<>>
    /\ relay' = IF trim(relay.lineBuffer) # <<>>
                THEN [relay EXCEPT !.pc = "closed", !.flushes = @ + 1,
                                   !.sent = streamLines(@, << relay.lineBuffer >>)]
                ELSE [relay EXCEPT !.pc = "closed"]
    /\ UNCHANGED outsideRelay

RelayNext ==
    \/ \E out \in PipeTexts(StdoutChars, MaxText), err \in PipeTexts(StderrChars, MaxText) :
          RelaySpawn(out, err)
    \/ \E n \in 1..MaxText : StdoutData(n)
    \/ \E n \in 1..MaxText : StderrData(n)
    \/ RelayClose

RelaySpec == Init /\ [][RelayNext]_vars

(***************************************************************************)
(* AddCustomDomainHandler: handle applies the Ingress and detaches         *)
(* checkSslStatus, which polls for the certificate Secret.                 *)
(***************************************************************************)
\* const maxAttempts = 30
maxAttempts == 30

\* what the probe for the Secret returns: a failed command, or the jsonpath
\* output, which is empty or white space while there is no certificate
CertResults ==
    { [success |-> FALSE, stdout |-> <<>>],
      [success |-> TRUE, stdout |-> <<>>],
      [success |-> TRUE, stdout |-> << "\n" >>],
      [success |-> TRUE, stdout |-> << "c", "\n" >>] }

\* result.success && result.stdout.trim().length > 0
certReady(result) == result.success /\ Len(trim(result.stdout)) > 0

\* a handler that starts the check whatever applyYaml returned
startsCheckAlways(result) == TRUE

\* if (result.success): the check is started
startsCheck(result) == result.success

\* the for loop's test before an iteration: the next sleep, or the status
\* error after the loop
nextAttempt(s) ==
    IF s.attempt + 1 <= maxAttempts
    THEN [s EXCEPT !.attempt = @ + 1, !.check = "sleeping"]
    ELSE [s EXCEPT !.check = "reporting", !.statuses = Append(@, "error")]

\* every variable outside the handler and its check
outsideSsl ==
    << serviceVars, image, shell, kube, deploy, clone, recipe, waiter, dbcreate, dbdelete, relay, backup >>

\* handle(command): applyYaml is called
AddCustomDomainHandle ==
    /\ ssl.pc = "idle"
    /\ ssl' = [NoSsl EXCEPT !.pc = "applying"]
    /\ UNCHANGED outsideSsl

\* applyYaml resolves: on success checkSslStatus is called, not awaited, and
\* runs up to its first timer; the result is returned
IngressApplied(result) ==
    /\ ssl.pc = "applying"
    /\ LET started == IF startsCheck(result) THEN nextAttempt(ssl) ELSE ssl
       IN  ssl' = [started EXCEPT !.pc = "returned", !.result = formatResult(result),
                                  !.atReturn = [probes |-> started.probes,
                                                statuses |-> started.statuses]]
    /\ UNCHANGED outsideSsl

\* the 10 s timer of an attempt fires: the probe is issued
CertTimer ==
    /\ ssl.check = "sleeping"
    /\ ssl' = [ssl EXCEPT !.check = "probing", !.probes = @ + 1]
    /\ UNCHANGED outsideSsl

\* the probe resolves: status active and return when the certificate is
\* there, else the next attempt
CertProbeDone(result) ==
    /\ ssl.check = "probing"
    /\ ssl' = IF certReady(result)
              THEN [ssl EXCEPT !.check = "reporting", !.found = TRUE,
                               !.statuses = Append(@, "active")]
              ELSE nextAttempt(ssl)
    /\ UNCHANGED outsideSsl

\* updateSslStatus settles; a rejection is logged
SslStatusSettled(ok) ==
    /\ ssl.check = "reporting"
    /\ ssl' = [ssl EXCEPT !.check = "done"]
    /\ UNCHANGED outsideSsl

SslNext ==
    \/ AddCustomDomainHandle
    \/ \E result \in CommandResults : IngressApplied(result)
    \/ CertTimer
    \/ \E result \in CertResults : CertProbeDone(result)
    \/ \E ok \in BOOLEAN : SslStatusSettled(ok)

SslSpec == Init /\ [][SslNext]_vars

(***************************************************************************)
(* CreateBackupHandler.handle: the steps of CREATE_BACKUP, one action per  *)
(* awaited call, with its catch and finally blocks.                        *)
(***************************************************************************)
\* payload.databaseType: the two supported engines and another one
BackupDatabaseTypes == { "postgresql", "mongodb", "redis" }

backupId == "b1"

\* `/tmp/backup-${backupId}`
backupPath == "/tmp/backup-" \o backupId

\* a status request that was made, and whether it was fulfilled
backupStatus(status, message, ok) == [status |-> status, message |-> message, ok |-> ok]

\* the awaited call after one that did not throw; the dump of either engine
\* is an exec in the pod, a copy out of it and a clean-up whose error is
\* swallowed
backupAfter(step) ==
    CASE step = "running" -> "dump"
      [] step = "dump" -> "copy"
      [] step = "copy" -> "cleanup"
      [] step = "cleanup" -> "stat"
      [] step = "stat" -> "uploading"
      [] step = "uploading" -> "url"
      [] step = "url" -> "upload"
      [] step = "upload" -> "completed"

\* the message of the Error a step throws
backupError(step) ==
    CASE step = "upload" -> "R2 upload failed: 500 Internal Server Error"
      [] step \in { "dump", "copy" } -> "Command failed: kubectl"
      [] step = "stat" -> "ENOENT: no such file or directory, stat '" \o backupPath \o "'"
      [] OTHER -> "Request failed with status code 500"

\* a handler whose clean-up is skipped after a failure
backupFinallyOnSuccess(b, result) ==
    IF result.success THEN [b EXCEPT !.pc = "unlinking", !.returning = result,
                                     !.unlinked = Append(@, backupPath)]
    ELSE [b EXCEPT !.pc = "done", !.result = result]

\* the finally block, entered with the value to return: unlink(backupPath)
backupFinally(b, result) ==
    [b EXCEPT !.pc = "unlinking", !.returning = result, !.unlinked = Append(@, backupPath)]

\* the catch block: request status failed with the message
backupCaught(b, msg) == [b EXCEPT !.pc = "failing", !.message = msg]

\* every variable outside the handler
outsideBackup ==
    << serviceVars, image, shell, kube, deploy, clone, recipe, waiter, dbcreate, dbdelete, relay, ssl >>

\* handle(command): status running is requested
CreateBackupHandle(databaseType) ==
    /\ backup.pc = "idle"
    /\ backup' = [NoBackup EXCEPT !.pc = "running", !.databaseType = databaseType]
    /\ UNCHANGED outsideBackup

\* updateBackupStatus of running, uploading or completed settles
BackupStatusSettled(ok) ==
    /\ backup.pc \in { "running", "uploading", "completed" }
    /\ LET b == [backup EXCEPT !.statuses = Append(@, backupStatus(backup.pc, Undefined, ok))]
       IN  backup' =
             CASE ~ok -> backupCaught(b, backupError(backup.pc))
               [] ok /\ backup.pc = "running" ->
                    IF backup.databaseType \in { "postgresql", "mongodb" }
                    THEN [b EXCEPT !.pc = "dump"]
                    ELSE backupCaught(b, "Unsupported database type for backup: "
                                            \o backup.databaseType)
               [] ok /\ backup.pc = "uploading" -> [b EXCEPT !.pc = "url"]
               [] ok /\ backup.pc = "completed" ->
                    backupFinally(b, [success |-> TRUE,
                                      logs |-> "Backup created and uploaded (1 bytes)",
                                      error |-> Undefined])
    /\ UNCHANGED outsideBackup

\* the dump, the copy, the clean-up in the pod, stat, getBackupUploadUrl or
\* the upload settles
BackupStepDone(ok) ==
    /\ backup.pc \in { "dump", "copy", "cleanup", "stat", "url", "upload" }
    /\ backup' = IF ok \/ backup.pc = "cleanup"
                 THEN [backup EXCEPT !.pc = backupAfter(backup.pc)]
                 ELSE backupCaught(backup, backupError(backup.pc))
    /\ UNCHANGED outsideBackup

\* updateBackupStatus(backupId, 'failed', ...) settles, its error swallowed
BackupFailedSettled(ok) ==
    /\ backup.pc = "failing"
    /\ backup' = backupFinally(
                    [backup EXCEPT !.statuses =
                        Append(@, backupStatus("failed", backup.message, ok))],
                    [success |-> FALSE, logs |-> Undefined, error |-> backup.message])
    /\ UNCHANGED outsideBackup

\* unlink settles, its error swallowed: handle's promise resolves
BackupUnlinkSettled(ok) ==
    /\ backup.pc = "unlinking"
    /\ backup' = [backup EXCEPT !.pc = "done", !.result = backup.returning]
    /\ UNCHANGED outsideBackup

BackupNext ==
    \/ \E databaseType \in BackupDatabaseTypes : CreateBackupHandle(databaseType)
    \/ \E ok \in BOOLEAN : BackupStatusSettled(ok)
    \/ \E ok \in BOOLEAN : BackupStepDone(ok)
    \/ \E ok \in BOOLEAN : BackupFailedSettled(ok)
    \/ \E ok \in BOOLEAN : BackupUnlinkSettled(ok)

BackupSpec == Init /\ [][BackupNext]_vars

(***************************************************************************)
(* Claims.                                                                 *)
(***************************************************************************)
\* the run of executeCommand for id settles in this step
Settles(id) == exec[id].pc # "idle" /\ exec'[id].pc = "idle"

\* the kind of command id has no case in getHandler
Unrecognised(id) == getHandler(typeOf(id)) = NoHandler

\* the handler of command id threw (handle() was called and did not return)
HandlerThrew(e) == e.handler # NoHandler /\ e.returned = <<>> /\ e.caught # <<>>

\* C1: in every reachable state the live-set runningCommands holds at most
\* maxConcurrentCommands entries.
C1_CeilingHolds == Cardinality(runningCommands) <= maxConcurrentCommands

\* C1 witness: the live-set is full while two polls are in flight
C1_Witness == Cardinality(runningCommands) = maxConcurrentCommands /\ polls = 2

\* C2: a command id is admitted (passed to executeCommand) at most once.
C2_AtMostOnce == \A id \in Ids : admitted[id] <= 1

\* C3: when the run of an admitted command settles, exactly one result
\* request has been issued for it.
C3_ExactlyOneResult ==
    [][\A id \in Ids : Settles(id) => Len(exec[id].results) = 1]_vars

\* C4 as stated: running is sent only after the ack completed, and every
\* result is sent only after a running message was sent.
C4_ResultOnlyAfterRunning ==
    \A id \in Ids :
        LET e == exec[id]
        IN  /\ e.pc = "ack" => e.sent = <<"ack">>
            /\ \A i \in DOMAIN e.sent :
                   e.sent[i] = "result" => \E j \in 1..(i - 1) : e.sent[j] = "running"

\* C4 amended: the first message is the ack and nothing else is sent while
\* it is in flight; a running message is sent only after the ack succeeded;
\* a result is sent only after the running request completed, or, with no
\* running message at all, right after the ack was rejected.
C4_Order ==
    \A id \in Ids :
        LET e == exec[id]
        IN  /\ e.pc # "idle" => e.sent[1] = "ack"
            /\ e.pc = "ack" => e.sent = <<"ack">>
            /\ e.pc = "running" => e.sent = <<"ack", "running">>
            /\ \A i \in DOMAIN e.sent :
                   e.sent[i] = "running" => i = 2 /\ "ack" \notin Range(e.rejected)
            /\ \A i \in DOMAIN e.sent :
                   e.sent[i] = "result" =>
                       \/ i >= 3 /\ e.sent[2] = "running"
                       \/ i = 2 /\ e.rejected = <<"ack">>

\* C4 witness: a run that has sent ack, running and result in this order
C4_Witness == \E id \in Ids : exec[id].sent = <<"ack", "running", "result">>

\* C5: when the handler of an admitted command has thrown an Error, the one
\* result sent for it is success=false with the thrown message as error, and
\* no executeCommand promise is ever rejected.
C5_ThrownBecomesFailure ==
    /\ ~unhandled
    /\ \A id \in Ids :
           LET e == exec[id]
           IN  HandlerThrew(e) =>
                   /\ e.pc = "failresult"
                   /\ e.results = << [success |-> FALSE,
                                      error   |-> IF e.caught[1].isError
                                                  THEN e.caught[1].message
                                                  ELSE "Unknown error",
                                      logs    |-> Undefined] >>

\* C5 witness: a handler threw an Error and the failure result is in flight
C5_Witness ==
    \E id \in Ids : HandlerThrew(exec[id]) /\ exec[id].caught[1].isError
                    /\ exec[id].pc = "failresult"

\* C6: a command whose kind getHandler does not recognise never has a handler
\* called and never gets a success result; it is acked and marked running
\* like any other, and once both requests have succeeded the result sent is
\* success=false with the error "Unknown command type: <kind>"; it is in the
\* live-set exactly while its run has not settled.
C6_UnknownKindFails ==
    \A id \in Ids : Unrecognised(id) =>
        LET e == exec[id]
        IN  /\ e.handler = NoHandler /\ e.returned = <<>> /\ e.pc # "handler"
            /\ \A i \in DOMAIN e.results : ~e.results[i].success
            /\ (e.pc \notin {"idle", "ack", "running"} /\ e.rejected = <<>>) =>
                   /\ e.sent = <<"ack", "running", "result">>
                   /\ e.results = << [success |-> FALSE,
                                      error   |-> "Unknown command type: " \o typeOf(id),
                                      logs    |-> Undefined] >>
            /\ (e.pc = "idle") <=> (id \notin runningCommands)

\* C6 witness: an unrecognised kind was acked and marked running, and its
\* failure result is in flight
C6_Witness ==
    \E id \in Ids : /\ Unrecognised(id)
                    /\ exec[id].pc = "failresult"
                    /\ exec[id].rejected = <<>>

\* C7: every kind of the CommandType union is routed to a handler of its
\* own, and the unknown-kind failure is raised only for kinds outside it.
C7_EveryKindRouted ==
    \A id \in Ids :
        LET e == exec[id]
        IN  /\ (typeOf(id) \in CommandType /\ e.pc \notin {"idle", "ack", "running"}
                /\ e.rejected = <<>>) =>
                   /\ e.handler # NoHandler
                   /\ \A k \in CommandType \ {typeOf(id)} : getHandler(k) # e.handler
            /\ (e.caught # <<>> /\ e.caught[1] = UnknownTypeError(typeOf(id))) =>
                   typeOf(id) \notin CommandType

\* C8: every result sent with success=false carries a non-empty error.
C8_FailureHasError ==
    \A id \in Ids :
        \A i \in DOMAIN exec[id].results :
            ~exec[id].results[i].success =>
                exec[id].results[i].error \notin {Undefined, ""}

\* C8 witness: a failure the handler returned and a failure after a rejected
\* ack are both being reported
C8_Witness ==
    \E a, b \in Ids :
        /\ exec[a].pc = "result" /\ ~exec[a].results[1].success
        /\ exec[b].pc = "failresult" /\ exec[b].rejected = <<"ack">>

\* what one tick must do with the pending ids it received, in their order
C9_OneTick(pending) ==
    LET fresh(id) == id \notin runningCommands
        elig == SelectSeq(pending, fresh)
        free == maxConcurrentCommands - Cardinality(runningCommands)
        n    == IF Len(elig) < free THEN Len(elig) ELSE free
        new  == { elig[i] : i \in 1..n }
    IN  /\ runningCommands' = runningCommands \cup new
        /\ lastTick'[1].started = [i \in 1..n |-> elig[i]]
        /\ lastTick'[1].skipped = IF Len(elig) > n THEN << elig[n + 1] >> ELSE <<>>
        /\ \A id \in new : exec'[id].sent = <<"ack">> /\ admitted'[id] = admitted[id] + 1
        /\ \A id \in Ids \ new : exec'[id] = exec[id] /\ admitted'[id] = admitted[id]

\* C9: a tick that receives k pending commands not in the live-set with s
\* free slots admits exactly the first min(k, s) of them, in response order,
\* stops at the first one that does not fit, and touches no other command;
\* no message is ever sent for a command that was never admitted.
C9_BoundedAdmission ==
    /\ [][lastTick' # <<>> => C9_OneTick(lastTick'[1].pending)]_vars
    /\ [](\A id \in Ids : admitted[id] = 0 => exec[id] = Idle)

\* C9 witness: a tick admitted commands up to the ceiling and skipped one
C9_Witness ==
    /\ lastTick # <<>>
    /\ Len(lastTick[1].started) = maxConcurrentCommands
    /\ lastTick[1].skipped # <<>>
    /\ \A id \in Range(lastTick[1].skipped) : admitted[id] = 0 /\ exec[id] = Idle

\* C10: under FairSpec every command is eventually admitted, unless the agent
\* shuts down first.
C10_EventuallyAdmitted ==
    \A id \in Ids : <>(admitted[id] > 0 \/ isShuttingDown)

\* C10 witness: a command that a tick skipped at the ceiling is admitted by a
\* later tick
C10_Witness ==
    /\ lastTick # <<>>
    /\ lastTick[1].waited # {}
    /\ \A id \in lastTick[1].waited : exec[id].pc = "ack"

\* C11: once isShuttingDown is set no command is admitted any more, not even
\* by a poll whose request was in flight when shutdown began.
C11_NoAdmissionAfterShutdown ==
    [][isShuttingDown => \A id \in Ids : admitted'[id] = admitted[id]]_vars

\* C12: onModuleDestroy awaits exactly the commands that are in the live-set
\* when it is called, returns only when each of them has settled, and a run
\* settles only from its result request, never from an earlier position.
C12_DrainsLiveSet ==
    /\ [](lifecycle = "destroyed" => drain = {})
    /\ [](lifecycle = "destroying" => drain # {})
    /\ [](drain \subseteq awaited)
    /\ [][(~isShuttingDown /\ isShuttingDown') =>
              awaited' = runningCommands /\ drain' = runningCommands /\ exec' = exec]_vars
    /\ [][isShuttingDown => awaited' = awaited]_vars
    /\ [][\A id \in drain : id \notin drain' => Settles(id)]_vars
    /\ [][\A id \in Ids : Settles(id) => exec[id].pc \in {"result", "failresult"}]_vars

\* C12 witness: shutdown has returned after awaiting a full live-set
C12_Witness ==
    lifecycle = "destroyed" /\ Cardinality(awaited) = maxConcurrentCommands

\* this step is the catch block of pollCommands (getCommands rejected)
PollFailed == polls' = polls - 1 /\ lastTick' = <<>>

\* C13: a failing poll changes nothing but the number of polls in flight: the
\* live-set, the runs, the poll timer and the lifecycle stay as they are, no
\* rejection reaches a .catch callback, and nothing is admitted.
C13_PollFailureContained ==
    [][PollFailed =>
          /\ runningCommands' = runningCommands
          /\ runningCommandsCount' = runningCommandsCount
          /\ exec' = exec /\ admitted' = admitted
          /\ pollInterval' = pollInterval
          /\ lifecycle' = lifecycle /\ isShuttingDown' = isShuttingDown
          /\ unhandled' = unhandled]_vars

\* C13 witness: the only poll so far has failed (no response was processed,
\* nothing was admitted, no request is in flight) and the timer is still set,
\* so the next tick polls again
C13_Witness ==
    /\ lifecycle = "initialized" /\ pollInterval /\ ~isShuttingDown
    /\ polls = 0 /\ lastTick = <<>>
    /\ \A id \in Ids : admitted[id] = 0
    /\ ENABLED Tick

\* C14: the status of every heartbeat is error when lastError is set, else
\* busy when the live-set is at (or above) the ceiling, else online, and the
\* request posted is the request that was built.
C14_StatusDerivation ==
    /\ [][lastOp' = "sendHeartbeat" =>
             hb'.request[1].status =
                 IF lastError \notin {Null, ""} THEN "error"
                 ELSE IF Cardinality(runningCommands) >= maxConcurrentCommands THEN "busy"
                 ELSE "online"]_vars
    /\ [][lastHeartbeat' # lastHeartbeat =>
             /\ lastHeartbeat' = hb'.request
             /\ hb.pc = "registering" => hb'.request = hb.request]_vars

\* C14 witness: with no last error and the live-set at the ceiling a
\* heartbeat with status busy has been posted
C14_Witness ==
    /\ lastError = Null
    /\ Cardinality(runningCommands) = maxConcurrentCommands
    /\ hb.pc = "post" /\ lastHeartbeat # <<>>
    /\ lastHeartbeat[1].status = "busy"

\* C15: a poll cycle that fails sets the last error.
C15_FailureSetsLastError == [][PollFailed => lastError' # Null]_vars

\* C16: the startup registration issues at most 10 register requests, returns
\* at the first success, gives up only after 10 failures, and the wait after
\* the k-th failure is min(1000 * 2^(k-1), 60000) ms.
C16_Backoff ==
    /\ startup.requests <= 10
    /\ Len(startup.waits) = startup.attempt
    /\ \A k \in DOMAIN startup.waits :
           startup.waits[k] = Min(1000 * 2^(k - 1), 60000)
    /\ startup.ok => startup.pc = "returned" /\ startup.requests = startup.attempt + 1
    /\ (startup.pc = "returned" /\ ~startup.ok) => startup.attempt = 10
    /\ startup.pc = "register" => startup.requests = startup.attempt + 1
    /\ startup.pc = "sleep" => startup.requests = startup.attempt

\* C16 witness: all ten attempts failed and the waits reached the cap
C16_Witness ==
    /\ startup.pc = "returned" /\ ~startup.ok
    /\ Len(startup.waits) = 10 /\ startup.waits[7] = 60000 /\ startup.waits[6] = 32000

\* C17: once the startup registration has given up, the first operation that
\* needs registration, a poll or a heartbeat, starts a register request.
C17_SelfRegisters ==
    [][(~registered /\ startup.pc = "returned" /\ hb.pc = "idle"
        /\ lastOp' \in {"getCommands", "sendHeartbeat"}) =>
           hb'.pc = "registering" /\ hb'.retry.pc = "register"]_vars

\* C18: when build() has returned, on every exit path, the removal of its
\* workspace directory has been attempted; the result is fixed before the
\* removal and neither outcome of the removal changes it.
C18_CleanupOnEveryPath ==
    /\ [](\A id \in Ids :
            /\ builds[id].pc = "done" =>
                   builds[id].cleanup \in {"removed", "failed"} /\ builds[id].result # <<>>
            /\ builds[id].result # <<>> => builds[id].pc \in {"cleanup", "done"}
            /\ builds[id].cleanup # "none" => builds[id].pc = "done")
    /\ [][\A id \in Ids :
            (builds[id].pc = "cleanup" /\ builds'[id].pc = "done") =>
                builds'[id].result = builds[id].result]_vars

\* C18 witness: a build whose prepare step threw has returned its failure
\* after a removal that failed too, and a build that ran through has
\* returned after a removal
C18_Witness ==
    \E a, b \in Ids :
        /\ builds[a].pc = "done" /\ builds[a].ran = <<"prepare">>
        /\ builds[a].cleanup = "failed" /\ ~builds[a].result[1].success
        /\ builds[b].pc = "done" /\ builds[b].cleanup = "removed"
        /\ builds[b].result[1].success

\* build() of command id has been called and has not returned
InProgress(id) == builds[id].pc \notin {"idle", "admitted", "done", "settled"}

\* C19: no two builds of the same appName are in progress at the same time.
C19_OneBuildPerApp ==
    \A a, b \in Ids :
        (a # b /\ InProgress(a) /\ InProgress(b)) =>
            builds[a].config[1].appName # builds[b].config[1].appName

\* the steps of build() in their order, with and without a generated
\* Dockerfile
StepOrders ==
    { <<"prepare", "clone", "recipe", "image", "import", "port">>,
      <<"prepare", "clone", "image", "import", "port">> }

\* the error build() reports when this step fails
ErrorOf(step) ==
    CASE step = "prepare" -> "EACCES: permission denied, mkdir '/tmp/deploypilot-builds'"
      [] step = "clone" -> "Git clone failed: Command failed: git clone"
      [] step = "recipe" -> "ENOSPC: no space left on device, write"
      [] step = "image" -> "Docker build failed: Docker build exited with code 1"
      [] step = "import" -> "Image import failed: Command failed: docker save"
      [] OTHER -> ""

\* C20: a success result means that every step ran, clone before image build
\* before import, and carries imageName docker.io/library/<appName>:<deploymentId>;
\* a failure result means that the steps ran in order up to the one that
\* failed and none after it, and carries an empty imageName and the error of
\* that step.
C20_BuildResult ==
    \A id \in Ids :
        builds[id].result # <<>> =>
            LET b == builds[id]
                r == b.result[1]
                c == b.config[1]
            IN  /\ r.success =>
                    /\ b.ran \in StepOrders
                    /\ r.imageName = "docker.io/library/" \o c.appName \o ":" \o c.deploymentId
                    /\ r.error = Undefined
                /\ ~r.success =>
                    /\ b.ran # <<>>
                    /\ \E o \in StepOrders : b.ran = SubSeq(o, 1, Len(b.ran))
                    /\ b.ran[Len(b.ran)] # "port"
                    /\ r.imageName = ""
                    /\ r.error = ErrorOf(b.ran[Len(b.ran)]) /\ r.error # ""

\* C20 witness: one build has returned success with its qualified image
\* name and another has failed at the import step
C20_Witness ==
    \E a, b \in Ids :
        /\ builds[a].result # <<>> /\ builds[a].result[1].success
        /\ builds[a].result[1].imageName
               = "docker.io/library/" \o builds[a].config[1].appName \o ":" \o deploymentIdOf(a)
        /\ builds[b].result # <<>> /\ ~builds[b].result[1].success
        /\ builds[b].ran[Len(builds[b].ran)] = "import"

\* C29: every id in the live-set eventually leaves it, and it leaves only in
\* the step in which a result request for it has completed, whether that
\* request and the ack and running requests before it succeeded or failed.
C29_EventuallyRemoved ==
    /\ \A id \in Ids : (id \in runningCommands) ~> (id \notin runningCommands)
    /\ [][\A id \in Ids :
            (id \in runningCommands /\ id \notin runningCommands') =>
                /\ exec[id].pc \in {"result", "failresult"}
                /\ exec[id].sent[Len(exec[id].sent)] = "result"
                /\ exec'[id] = Idle]_vars

\* C29 witness: a command was admitted and has left the live-set again while
\* another one is still in it
C29_Witness ==
    \E a, b \in Ids :
        /\ admitted[a] > 0 /\ a \notin runningCommands /\ exec[a] = Idle
        /\ b \in runningCommands

\* C30: no promise of executeCommand is ever rejected, and the step that
\* settles a run touches neither the polls in flight, the poll timer nor the
\* run of any other command.
C30_ResultFailureContained ==
    /\ [](~unhandled)
    /\ [](\A id \in Ids : exec[id].pc # "rejected")
    /\ [][\A id \in Ids : Settles(id) =>
            /\ polls' = polls /\ pollInterval' = pollInterval
            /\ runningCommands' = runningCommands \ {id}
            /\ \A other \in Ids \ {id} : exec'[other] = exec[other]]_vars

\* C30 witness: the result request of a run was rejected, its failure result
\* is now in flight, and another command is running beside it
C30_Witness ==
    \E a, b \in Ids :
        /\ a # b
        /\ exec[a].pc = "failresult" /\ exec[a].rejected = <<"result">>
        /\ exec[b].pc \in {"ack", "running", "handler"}

\* C21: when the deadline timer of buildImage fires while the docker process
\* is still running, the process is sent SIGKILL and the promise settles in
\* that step, no earlier than 10 minutes after the call, with success = false
\* and the error "Docker build timed out after 600s"; the promise settles once,
\* so the 'close' event that follows leaves the timed-out result in place.
C21_TimeoutKillsOnce ==
    /\ [](image.timeout = "fired" =>
            /\ image.elapsed >= 10
            /\ Len(image.settled) = 1
            /\ image.settled[1].success = FALSE
            /\ image.settled[1].error = "Docker build timed out after 600s")
    /\ [][(image.timeout = "armed" /\ image'.timeout = "fired" /\ image.proc = "running") =>
            /\ image'.proc = "killed" /\ image'.signal = "SIGKILL"
            /\ image.settled = <<>> /\ image'.settled # <<>>]_vars
    /\ [][image.settled # <<>> => image'.settled = image.settled]_vars

\* C21 witness: the deadline fired, the process was killed and its 'close'
\* event has been handled
C21_Witness ==
    image.timeout = "fired" /\ image.signal = "SIGKILL" /\ image.proc = "closed"

\* the words sh is meant to run for a composed line: one command whose
\* arguments hold the payload values verbatim
intendedArgv(by, values) ==
    CASE by = "deleteDeployment" ->
            << << "kubectl" >>, << "delete" >>, << "deployment" >>, values[1],
               << "-n" >>, values[2], << "--ignore-not-found" >> >>
      [] by = "cloneRepository" ->
            << << "git" >>, << "clone" >>, << "--depth" >>, << "1" >>, << "--branch" >>,
               values[1], values[2], << BUILD_DIR >> >>
      [] OTHER ->
            << << "kubectl" >>, << "delete" >>, << "ingressroutetcp" >>,
               values[1] \o << "-external" >>, << "-n" >>, values[2],
               << "--ignore-not-found" >> >>

\* C23: every command line the agent composes is read by sh as the one
\* intended command, with each payload value as one whole argument: no value
\* ends its quoting, adds a word or starts a second command.
C23_NoInjection ==
    shell.pc = "run" =>
        shell.parsed[1] = [ok |-> TRUE, cmds |-> << intendedArgv(shell.by, shell.values) >>]

\* C24: a setEnvVars call with an empty map returns success = true in the
\* step of the call, with no command executed and the cluster as it was; an
\* UPDATE_ENV command with an empty envVars map returns success = true the
\* same way, without calling the cluster.
C24_EmptyMapNoCommand ==
    (kube.call \in { "setEnvVars", "UPDATE_ENV" } /\ kube.envVars = <<>>) =>
        /\ kube.pc = "returned"
        /\ kube.returned[1].success = TRUE
        /\ kube.executed = <<>> /\ kube.results = <<>>
        /\ kube.objects = kube.before

\* C24 witness: UPDATE_ENV with an empty map has returned while the
\* application's deployment exists
C24_Witness ==
    /\ kube.call = "UPDATE_ENV" /\ kube.envVars = <<>> /\ kube.pc = "returned"
    /\ "deployment" \in kube.objects

\* C25: deleteDeployment returns only after executing its three deletes, of
\* the Deployment, the Service and the Ingress in that order, whatever the
\* earlier ones returned; it returns success = true exactly when all three
\* succeeded, which they do whenever kubectl reaches the cluster, whether the
\* objects exist or not.
C25_AllThreeAttempted ==
    (kube.call = "deleteDeployment" /\ kube.pc = "returned") =>
        /\ kube.executed = deleteCommands(KubeNamespace, KubeApp)
        /\ Len(kube.results) = 3
        /\ kube.returned[1].success = (\A k \in 1..3 : kube.results[k].success)
        /\ (\A k \in 1..3 : kube.results[k].stderr # "connection refused") =>
                kube.returned[1].success = TRUE

\* C25 witness: deleteDeployment returned success for an application with no
\* object left, called again after a delete that succeeded
C25_Witness ==
    /\ kube.call = "deleteDeployment" /\ kube.pc = "returned"
    /\ kube.before = {} /\ kube.returned[1].success
    /\ kube.previous = << [call |-> "deleteDeployment", success |-> TRUE] >>

\* a status that ends a deployment
terminalStatus(s) == s.status \in { "ready", "failed" }

\* the part of a DeployHandler run its caller can observe
callerView(d) ==
    [pc |-> d.pc, logs |-> d.logs, issued |-> d.issued, trace |-> d.trace,
     result |-> d.result]

\* the run with no request in flight and no relay failure logged
relayQuiet(d) == [d EXCEPT !.requests = {}, !.errorLogged = FALSE]

\* the states handle() can move to from d
handlerSteps(d) ==
    CASE d.pc = "idle" -> { handle(DeployPayload) }
      [] d.pc = "namespace" ->
            { afterNamespace(d, r) : r \in ShellResults } \cup { deployCaught(d, e) : e \in Thrown }
      [] d.pc = "build" -> { afterBuildResult(d, r) : r \in BuildResults }
      [] d.pc = "deploy" ->
            { afterDeploy(d, r) : r \in ShellResults } \cup { deployCaught(d, e) : e \in Thrown }
      [] OTHER -> {}

\* C26: a DEPLOY run that returns success has issued the statuses building,
\* deploying, ready in that order, with the namespace step and the build
\* between building and deploying and the cluster deployment between
\* deploying and ready; in every run, deploying is issued only after the build
\* succeeded and ready only after the cluster deployment succeeded.
C26_StatusOrder ==
    /\ (deploy.pc = "returned" /\ deploy.result[1].success) =>
            deploy.trace = << "building", "namespace", "build", "deploying", "deploy", "ready" >>
    /\ \A k \in DOMAIN deploy.trace :
            /\ deploy.trace[k] \in { "namespace", "build" } =>
                    \E j \in 1..(k - 1) : deploy.trace[j] = "building"
            /\ deploy.trace[k] = "deploying" => \E j \in 1..(k - 1) : deploy.trace[j] = "build"
            /\ deploy.trace[k] = "ready" => \E j \in 1..(k - 1) : deploy.trace[j] = "deploy"

\* C26 witness: a run returned success
C26_Witness ==
    deploy.pc = "returned" /\ deploy.result[1].success /\ Len(deploy.issued) = 3

\* C27: a DeployHandler run that has returned issued exactly one terminal
\* status, as its last status: ready exactly when the result is success, failed
\* exactly when it is not, and then with the result's error as its message; a
\* run that has not returned has issued no terminal status.
C27_OneTerminalStatus ==
    LET terminal == SelectSeq(deploy.issued, terminalStatus)
        last == deploy.issued[Len(deploy.issued)]
    IN  IF deploy.pc = "returned"
        THEN /\ Len(terminal) = 1
             /\ terminalStatus(last)
             /\ (last.status = "ready") = deploy.result[1].success
             /\ (last.status = "failed") = ~deploy.result[1].success
             /\ last.status = "failed" =>
                    last.message # Undefined /\ last.message = deploy.result[1].error
        ELSE terminal = <<>>

\* C27 witness: the cluster deployment threw a value that is no Error, after a
\* successful build
C27_Witness ==
    /\ deploy.pc = "returned" /\ ~deploy.result[1].success
    /\ deploy.result[1].error = "Unknown error"
    /\ deploy.trace = << "building", "namespace", "build", "deploying", "failed" >>

\* C28: a sendLog or updateStatus request that settles, with success, failure
\* or timeout, changes nothing its caller observes, and every step of the
\* handler is the step it takes with no request in flight and no relay
\* failure: position, logs, statuses and the returned result do not depend on
\* the requests.
C28_RelayNeverAffectsCaller ==
    /\ [][deploy'.requests # deploy.requests /\ deploy'.requests \subseteq deploy.requests =>
            callerView(deploy') = callerView(deploy)]_vars
    /\ [][deploy'.pc # deploy.pc =>
            \E step \in handlerSteps(relayQuiet(deploy)) :
                callerView(deploy') = callerView(step)]_vars

\* C28 witness: the handler returned success although a request failed and
\* while others are still in flight
C28_Witness ==
    /\ deploy.pc = "returned" /\ deploy.result[1].success
    /\ deploy.errorLogged /\ deploy.requests # {}

\* an unmasked credential occurs in a text: a user name, a colon and a
\* non-empty run other than *** up to an '@'
unmasked(text) ==
    \E k \in DOMAIN text :
        /\ text[k] \in { "x-access-token", "oauth2" }
        /\ k + 3 <= Len(text) /\ text[k + 1] = ":"
        /\ LET n == runLength(SubSeq(text, k + 2, Len(text)))
           IN  /\ n >= 1 /\ k + 2 + n <= Len(text)
               /\ SubSeq(text, k + 2, k + 1 + n) # << "***" >>

\* C22: after a clone with a token, no string that build() logs, streams or
\* returns holds an unmasked credential or any character of the token.
C22_NoCredentialEmitted ==
    (clone.pc = "done" /\ clone.token # <<>>) =>
        \A text \in clone.emitted :
            /\ ~unmasked(text)
            /\ \A k \in DOMAIN text : text[k] # "t"

\* C34: in every state the count held by the heartbeat service is the size of
\* the live-set, and every step that inserts into or removes from the live-set
\* sets the count to the new size.
C34_CountIsLiveSetSize ==
    /\ [](runningCommandsCount = Cardinality(runningCommands))
    /\ [][runningCommands' # runningCommands =>
            runningCommandsCount' = Cardinality(runningCommands')]_vars

\* C34 witness: sendHeartbeat runs while a command is in the live-set
C34_Witness == lastOp = "sendHeartbeat" /\ runningCommands # {} /\ lastHeartbeat # <<>>

\* C35: the handler of a command is invoked only after the ack request and
\* the mark-running request were sent, in that order, and neither was
\* rejected; when either is rejected no handler is invoked, and the step that
\* handles the rejection sends a result with success = false and the
\* request's error message.
C35_HandlerOnlyAfterAckAndRunning ==
    \A id \in Ids :
        LET e == exec[id]
            refused == { "ack", "running" } \cap Range(e.rejected)
        IN  /\ (e.handler # NoHandler \/ e.returned # <<>>) =>
                    /\ Len(e.sent) >= 2 /\ e.sent[1] = "ack" /\ e.sent[2] = "running"
                    /\ refused = {}
            /\ refused # {} =>
                    /\ e.handler = NoHandler /\ e.returned = <<>>
                    /\ e.results = << [success |-> FALSE, error |-> AxiosError.message,
                                       logs |-> Undefined] >>
                    /\ e.sent[Len(e.sent)] = "result"

\* C35 witness: the mark-running request of a command was rejected and its
\* failure result is in flight
C35_Witness ==
    \E id \in Ids : exec[id].rejected = << "running" >> /\ exec[id].pc = "failresult"

\* C36: for a command whose handler returned, every result message sent
\* carries the success flag the handler returned.
C36_ResultFlagIsHandlersFlag ==
    \A id \in Ids :
        exec[id].returned # <<>> =>
            \A k \in DOMAIN exec[id].results :
                exec[id].results[k].success = exec[id].returned[1].success

\* C31: the image is built from the repository's Dockerfile, with nothing
\* written, exactly when the framework is docker and the repository has a
\* Dockerfile; in every other case the image build starts only after one
\* write of the generated recipe to the Dockerfile path, and reads it.
C31_DockerfileChoice ==
    recipe.pc \in { "image", "built" } =>
        /\ IF recipe.config[1].framework = "docker" /\ recipe.exists
           THEN recipe.writes = 0 /\ recipe.file = << RepositoryDockerfile >>
           ELSE /\ recipe.writes = 1
                /\ recipe.file = << generateDockerfile(recipe.config[1], recipe.pm) >>
        /\ recipe.pc = "built" => recipe.used = recipe.file

\* C31 witness: a repository of another framework had a Dockerfile, and the
\* image was built from the generated recipe
C31_Witness ==
    /\ recipe.pc = "built" /\ recipe.exists /\ recipe.config[1].framework = "nextjs"
    /\ recipe.used # << RepositoryDockerfile >>

\* C32: waitForReady returns in the step in which a probe shows one ready
\* replica and in no other; every probe after the first starts 5 s after the
\* probe before it ended; it throws "Database db did not become ready within
\* 120s" only when 120 s have passed with no such probe; and a call still
\* waiting has run for less than the deadline plus one probe and one sleep.
C32_WaiterBounded ==
    /\ [](waiter.pc = "returned" <=> waiter.observed)
    /\ [][waiter'.observed /\ ~waiter.observed =>
            waiter.pc = "probing" /\ waiter'.pc = "returned"]_vars
    /\ []((waiter.pc = "probing" /\ waiter.probes > 1) =>
            waiter.start = waiter.lastEnd + 5000)
    /\ [](waiter.pc = "thrown" =>
            /\ waiter.elapsed >= 120000 /\ ~waiter.observed
            /\ waiter.error = "Database db did not become ready within 120s")
    /\ [](waiter.pc \in { "probing", "sleeping" } =>
            waiter.elapsed < ReadyTimeoutMs + CommandTimeoutMs + ProbeDelayMs)

\* C32 witness: the waiter gave up after 24 probes that each returned at once
C32_Witness == waiter.pc = "thrown" /\ waiter.probes = 24 /\ waiter.elapsed = 120000

\* C37: CREATE_DATABASE is fail-fast: once a step has failed, the failure of
\* ensuring the namespace included, no later step is started, the status
\* reported is error and the result is a failure.
C37_FailFast ==
    /\ \A i \in 1..Len(dbcreate.ran) :
          dbcreate.ran[i] \in dbcreate.failed => i = Len(dbcreate.ran)
    /\ (dbcreate.pc = "done" /\ dbcreate.failed # {}) =>
          /\ dbcreate.result.success = FALSE
          /\ \E i \in 1..Len(dbcreate.statuses) : dbcreate.statuses[i][1] = "error"

\* C38: DELETE_DATABASE confirms the deletion and returns success only if
\* every delete it issued succeeded; after a failed delete no confirmation is
\* requested and the result is a failure.
C38_ConfirmOnlyAfterAllDeleted ==
    LET someFailed == \E i \in 1..Len(dbdelete.outcomes) : ~dbdelete.outcomes[i]
    IN  /\ (dbdelete.pc = "confirming" \/ dbdelete.confirmed) => ~someFailed
        /\ (dbdelete.pc = "done" /\ someFailed) => dbdelete.result.success = FALSE

\* the non-blank lines of a pipe's text, trimmed as the relay sends them
pipeLines(text) ==
    { trim(split(text)[i]) : i \in 1..Len(split(text)) } \ { <<>> }

\* C33: every line sent to the log relay is one non-blank line of stdout or
\* one non-blank line of stderr, however the two pipes are chunked and
\* interleaved, and the unterminated tail is flushed at most once, on close.
C33_LinesOfOneStream ==
    /\ \A i \in 1..Len(relay.sent) :
          relay.sent[i] \in pipeLines(relay.stdoutText) \cup pipeLines(relay.stderrText)
    /\ relay.flushes <= 1
    /\ relay.flushes = 1 => relay.pc = "closed"

\* C39: the certificate check probes at most 30 times and no more once a
\* probe found the certificate; it reports at most one SSL status, and
\* exactly one when it has ended: active if a probe found the certificate,
\* error after 30 probes that did not; the result of the command is returned
\* before the first probe; and after a failed apply there is no check and no
\* SSL status.
C39_OneSslStatus ==
    /\ [](ssl.probes <= 30 /\ Len(ssl.statuses) <= 1)
    /\ [][ssl.found => ssl'.probes = ssl.probes]_vars
    /\ [](ssl.statuses = << "active" >> => ssl.found)
    /\ [](ssl.statuses = << "error" >> => ~ssl.found /\ ssl.probes = 30)
    /\ [](ssl.check = "done" => Len(ssl.statuses) = 1)
    /\ [](ssl.pc = "returned" => ssl.atReturn = [probes |-> 0, statuses |-> <<>>])
    /\ []((ssl.pc = "returned" /\ ~ssl.result.success) =>
            ssl.check = "none" /\ ssl.statuses = <<>> /\ ssl.probes = 0)
    /\ []((ssl.pc = "returned" /\ ssl.result.success) => ssl.check # "none")

\* C39 witness: the check reported error after the thirtieth probe
C39_Witness == ssl.check = "done" /\ ssl.statuses = << "error" >> /\ ssl.probes = 30

\* the statuses requested, in order
reportedStatuses ==
    [i \in 1..Len(backup.statuses) |-> backup.statuses[i].status]

====
